---------------------------- MODULE Spec2Model ----------------------------
(***************************************************************************)
(* JULEA client library: handles (JKV / JObject), the exec functions of    *)
(* the object and key-value clients, the connection pool they lease from   *)
(* and the server workers and backends they talk to.                       *)
(*                                                                         *)
(* Strings are sequences of character codes.  A handle "pointer" is a      *)
(* natural number; NULL is 0.                                              *)
(***************************************************************************)
EXTENDS Integers, Sequences, FiniteSets, TLC

(***************************************************************************)
(* Bounds of the model.                                                    *)
(***************************************************************************)
MaxHandles == 2        \* handles created in the handle specification
MaxRefs == 3           \* cap on a reference count in the handle specification
MaxOpsTotal == 3       \* operations enqueued by all threads together
MaxOpsFail == 2        \* operations enqueued in the specification with wire failures
MaxOpsOther == 1       \* operations enqueued by a thread other than the first
MaxValue == 2          \* KV values are 1..MaxValue
MaxLength == 1         \* write lengths are 1..MaxLength
MaxConnections == 2    \* max-connections of the configuration
MaxFailures == 1       \* wire failures injected in one behaviour
NumCounters == 1       \* caller-supplied byte counters

Threads == {1, 2}
NULL == 0

(* configured server counts the handle specification draws from *)
ServerCounts == {1, 2}

(* character codes of the strings used as namespaces, names and keys *)
Namespaces == { <<110>> }
Names == { <<97>>, <<98>> }

Counters == 1..NumCounters

(* JSemanticsSafety *)
J_SEMANTICS_SAFETY_NONE == 0
J_SEMANTICS_SAFETY_NETWORK == 1
J_SEMANTICS_SAFETY_STORAGE == 2
Safeties == {J_SEMANTICS_SAFETY_NONE, J_SEMANTICS_SAFETY_NETWORK,
             J_SEMANTICS_SAFETY_STORAGE}

VARIABLES
    kv_server_count,      \* j_configuration_get_kv_server_count()
    object_server_count,  \* j_configuration_get_object_server_count()
    handles,              \* handle pointer -> JKV / JObject structure
    held,                 \* held[t][h]: references thread t owns on handle h
    freed,                \* freed[h]: how often the memory of h was released
    last_new,             \* the last j_*_new* call and the pointer it returned
    family,               \* the client the application uses: "kv" or "object"
    safety,               \* safety of the semantics the batches are created with
    kv_backend,           \* TRUE: j_kv_backend() != NULL (in-process backend)
    object_backend,       \* TRUE: j_object_backend() != NULL
    replies_unflagged,    \* the server answers get/read/status without the flag
    pc,                   \* pc[t]: where thread t is in j_batch_execute
    batch,                \* batch[t]: operations of the thread's batch
    todo,                 \* todo[t]: operations j_batch_execute has not run yet
    run,                  \* run[t]: operations of the run being executed
    conn,                 \* conn[t]: connection the exec function has popped
    ret,                  \* ret[t]: the exec function's ret
    result,               \* result[t]: result of the batch so far
    rx,                   \* rx[t]: progress of reply processing
    log,                  \* log[t]: the runs thread t has completed
    ops_left,             \* operations that may still be enqueued
    conns,                \* connection id -> connection (both directions)
    pool,                 \* pool[kind][index]: idle connections, top last
    kv_store,             \* key-value database per server index and in-process
    object_store,         \* object store per server index and in-process
    commits,              \* how the KV batches executed so far were committed
    bytes,                \* caller-supplied counters (*bytes_read / *bytes_written)
    expected,             \* bytes the completed batches transferred, per counter
    moved,                \* moved[t]: bytes the executing batch of t transferred
    failures,             \* wire failures so far
    backend_db,           \* the leveldb database of the KV backend under test
    iterator,             \* the JLevelDBIterator handed out by get_all / get_by_prefix
    yielded,              \* values backend_iterate has returned for that iterator
    stored,               \* the (namespace, key, value) triples put and not deleted
    background_operation, \* the JBackgroundOperation structure
    worker,               \* where the pool thread is in j_background_operation_thread
    waiter,               \* waiter[t]: where thread t is in j_background_operation_wait
    distribution,         \* a JDistribution, the range it was reset to and its chunks
    restored,             \* the JDistribution made from the serialized form of it
    environment,          \* what j_init finds: configuration, backend modules
    common,               \* the JCommon j_init is filling in
    library,              \* j_init's position, j_common and the state of the process
    julead,               \* the server daemon: main, its backend and its connections
    lookup                \* a configuration lookup: what it finds and what it returns

refVars == <<kv_server_count, object_server_count, handles, held, freed, last_new>>

iterVars == <<backend_db, iterator, yielded, stored>>

(* state of the components the batch pipeline does not touch *)
bgVars == <<background_operation, worker, waiter>>

distVars == <<distribution, restored>>

initVars == <<environment, common, library>>

srvVars == <<julead, lookup>>

libVars == <<iterVars, bgVars, distVars, initVars, srvVars>>

cfgVars == <<family, safety, kv_backend, object_backend, replies_unflagged, libVars>>

threadVars == <<pc, batch, todo, run, conn, ret, result, rx, log, ops_left>>

netVars == <<conns, pool, failures>>

storeVars == <<kv_store, object_store, commits>>

countVars == <<bytes, expected, moved>>

pipeVars == <<cfgVars, threadVars, netVars, storeVars, countVars>>

(* everything the batch pipeline and the handle API work on *)
clientVars == <<refVars, family, safety, kv_backend, object_backend,
                replies_unflagged, threadVars, netVars, storeVars, countVars>>

vars == <<refVars, pipeVars>>

(***************************************************************************)
(* Helpers                                                                 *)
(***************************************************************************)
(* guint32 arithmetic kept in two 16-bit halves <<high, low>> *)
Half == 256 * 256

RECURSIVE j_helper_hash_from(_, _)
j_helper_hash_from(hash, str) ==
    IF str = <<>> THEN hash
    ELSE LET low == hash[2] * 33 + Head(str)
             high == hash[1] * 33 + (low \div Half)
         IN  j_helper_hash_from(<<high % Half, low % Half>>, Tail(str))

(* hash = 5381 *)
j_helper_hash(str) == j_helper_hash_from(<<0, 5381>>, str)

(* hash % count for a guint32 held in halves *)
Mod32(hash, count) ==
    ((hash[1] % count) * (Half % count) + (hash[2] % count)) % count

j_configuration_get_server_count(kind) ==
    IF kind = "kv" THEN kv_server_count ELSE object_server_count

(***************************************************************************)
(* Handles: j_kv_new, j_kv_new_for_index, j_kv_ref, j_kv_unref and the     *)
(* identical j_object_* functions.  The reference state is the triple      *)
(* <<handles, held, freed>>.                                               *)
(***************************************************************************)
HashIndex(name, count) == Mod32(j_helper_hash(name), count)

IndexInRangeOffByOne(index, count) == index <= count
IndexInRange(index, count) == index < count

NewHandle(kind, index, namespace, name) ==
    [kind |-> kind, index |-> index, namespace |-> namespace, name |-> name,
     ref_count |-> 1, live |-> TRUE]

NextHandle == Cardinality(DOMAIN handles) + 1

Install(t, fn, kind, index, namespace, name) ==
    /\ NextHandle <= MaxHandles
    /\ handles' = handles @@ (NextHandle :> NewHandle(kind, index, namespace, name))
    /\ held' = [u \in Threads |->
                  held[u] @@ (NextHandle :> IF u = t THEN 1 ELSE 0)]
    /\ freed' = freed @@ (NextHandle :> 0)
    /\ last_new' = [fn |-> fn, kind |-> kind, index |-> index, ret |-> NextHandle]
    /\ UNCHANGED <<kv_server_count, object_server_count, pipeVars>>

(* g_return_val_if_fail(index < count, NULL) *)
Reject(fn, kind, index) ==
    /\ last_new' = [fn |-> fn, kind |-> kind, index |-> index, ret |-> NULL]
    /\ UNCHANGED <<kv_server_count, object_server_count, handles, held, freed,
                   pipeVars>>

New(t, kind, namespace, name) ==
    Install(t, "new", kind,
            HashIndex(name, j_configuration_get_server_count(kind)),
            namespace, name)

NewForIndex(t, kind, index, namespace, name) ==
    IF IndexInRange(index, j_configuration_get_server_count(kind))
    THEN Install(t, "new_for_index", kind, index, namespace, name)
    ELSE Reject("new_for_index", kind, index)

j_kv_new(t, namespace, key) == New(t, "kv", namespace, key)
j_object_new(t, namespace, name) == New(t, "object", namespace, name)
j_kv_new_for_index(t, index, namespace, key) ==
    NewForIndex(t, "kv", index, namespace, key)
j_object_new_for_index(t, index, namespace, name) ==
    NewForIndex(t, "object", index, namespace, name)

(* g_atomic_int_inc / g_atomic_int_dec_and_test on ref_count: one step each *)
RefCountAfterInc(ref_count) == ref_count + 1
RefCountAfterDec(ref_count) == ref_count - 1

DropsLastRefOffByOne(ref_count) == RefCountAfterDec(ref_count) <= 1
DropsLastRef(ref_count) == RefCountAfterDec(ref_count) = 0

(* the reference state after the owner u gained a reference on h *)
RefIn(st, u, h) ==
    <<[st[1] EXCEPT ![h].ref_count = RefCountAfterInc(@)],
      [st[2] EXCEPT ![u][h] = @ + 1],
      st[3]>>

(* the reference state after the owner t released a reference on h *)
UnrefIn(st, t, h) ==
    IF DropsLastRef(st[1][h].ref_count)
    THEN <<[st[1] EXCEPT ![h].ref_count = RefCountAfterDec(@), ![h].live = FALSE],
           [st[2] EXCEPT ![t][h] = @ - 1],
           [st[3] EXCEPT ![h] = @ + 1]>>
    ELSE <<[st[1] EXCEPT ![h].ref_count = RefCountAfterDec(@)],
           [st[2] EXCEPT ![t][h] = @ - 1],
           st[3]>>

RefState == <<handles, held, freed>>

SetRefState(st) ==
    /\ handles' = st[1]
    /\ held' = st[2]
    /\ freed' = st[3]

(* thread t, owning a reference, takes one more and hands it to thread u *)
Ref(t, u, h, kind) ==
    /\ h \in DOMAIN handles
    /\ handles[h].kind = kind
    /\ held[t][h] > 0
    /\ handles[h].ref_count < MaxRefs
    /\ SetRefState(RefIn(RefState, u, h))
    /\ UNCHANGED <<kv_server_count, object_server_count, last_new, pipeVars>>

Unref(t, h, kind) ==
    /\ h \in DOMAIN handles
    /\ handles[h].kind = kind
    /\ held[t][h] > 0
    /\ SetRefState(UnrefIn(RefState, t, h))
    /\ UNCHANGED <<kv_server_count, object_server_count, last_new, pipeVars>>

j_kv_ref(t, u, h) == Ref(t, u, h, "kv")
j_kv_unref(t, h) == Unref(t, h, "kv")
j_object_ref(t, u, h) == Ref(t, u, h, "object")
j_object_unref(t, h) == Unref(t, h, "object")

HandleIds == 1..MaxHandles

(***************************************************************************)
(* Key-value backend (leveldb).  A database is a function from the stored  *)
(* key to the value; a write batch is the sequence of its updates.         *)
(***************************************************************************)
Without(f, k) == [x \in (DOMAIN f) \ {k} |-> f[x]]

Put(f, k, v) == [x \in (DOMAIN f) \cup {k} |-> IF x = k THEN v ELSE f[x]]

(* g_strdup_printf("%s:%s", namespace, key), stored with strlen(nskey) + 1 *)
NsKey(namespace, key) == namespace \o <<58>> \o key \o <<0>>

backend_batch_start(namespace, s) ==
    [batch |-> <<>>, namespace |-> namespace, safety |-> s]

backend_put(b, key, value) ==
    [b EXCEPT !.batch = Append(@, [op |-> "put", key |-> NsKey(b.namespace, key),
                                   value |-> value])]

backend_delete(b, key) ==
    [b EXCEPT !.batch = Append(@, [op |-> "delete", key |-> NsKey(b.namespace, key),
                                   value |-> NULL])]

RECURSIVE leveldb_write(_, _)
leveldb_write(db, updates) ==
    IF updates = <<>> THEN db
    ELSE LET u == Head(updates)
         IN  leveldb_write(IF u.op = "put" THEN Put(db, u.key, u.value)
                           ELSE Without(db, u.key),
                           Tail(updates))

backend_batch_execute(db, b) == leveldb_write(db, b.batch)

(* write options that are never the synchronous ones *)
write_options_default(b) == "backend_write_options"

(* the write options backend_batch_execute passes to leveldb_write *)
write_options(b) ==
    IF b.safety = J_SEMANTICS_SAFETY_STORAGE THEN "backend_write_options_sync"
    ELSE "backend_write_options"

(* what a commit of batch b adds to the record of commits *)
Committed(b) == {[safety |-> b.safety, options |-> write_options(b)]}

(* backend_get looking the key up without its terminating NUL *)
backend_get_unterminated(db, namespace, key) ==
    IF namespace \o <<58>> \o key \in DOMAIN db
    THEN db[namespace \o <<58>> \o key] ELSE NULL

(* the value found, NULL when leveldb_get returns NULL *)
backend_get(db, namespace, key) ==
    IF NsKey(namespace, key) \in DOMAIN db THEN db[NsKey(namespace, key)] ELSE NULL

(***************************************************************************)
(* Object backend.  A store is a function from <<namespace, name>> to the  *)
(* size of the object; the backend handle of an object is that pair.       *)
(***************************************************************************)
ObjectPath(namespace, name) == <<namespace, name>>

object_create(store, namespace, name) ==
    IF ObjectPath(namespace, name) \in DOMAIN store THEN store
    ELSE Put(store, ObjectPath(namespace, name), 0)

object_open(store, namespace, name) == ObjectPath(namespace, name) \in DOMAIN store

object_delete(store, path) == Without(store, path)

object_status(store, path) == store[path]

Min(a, b) == IF a < b THEN a ELSE b
Max(a, b) == IF a > b THEN a ELSE b

(* bytes a read of length at offset returns *)
object_read(store, path, length, offset) ==
    Max(0, Min(length, store[path] - offset))

object_write(store, path, length, offset) ==
    Put(store, path, Max(store[path], offset + length))

(***************************************************************************)
(* Operations and the local path of the exec functions.  An exec function  *)
(* gets the operations of one run; what it returns here is a record:       *)
(*   ret    the gboolean the function returns                              *)
(*   ok     whether every backend call of the run succeeded                *)
(*   kv, object   the in-process stores afterwards                         *)
(*   bytes  the caller's counters afterwards                               *)
(*   moved  bytes the backend transferred, per counter                     *)
(*   out    what was delivered to the caller, one entry per operation      *)
(*   stray  backend calls issued on a handle that was never obtained       *)
(*   calls  the backend calls the function made, in order                  *)
(***************************************************************************)
InProcess == 0 - 1

(* an operation whose key is the locality of its handle *)
OperationKeyedByLocality(fn, h, value, length, offset, counter) ==
    [exec_func |-> fn, key |-> <<handles[h].index, handles[h].namespace>>,
     handle |-> h, value |-> value, func |-> FALSE,
     length |-> length, offset |-> offset, counter |-> counter]

(* operation->key = kv; func is set by j_kv_get_callback only *)
Operation(fn, h, value, length, offset, counter) ==
    [exec_func |-> fn, key |-> h, handle |-> h, value |-> value, func |-> FALSE,
     length |-> length, offset |-> offset, counter |-> counter]

KindOf(fn) ==
    IF fn \in {"j_kv_put_exec", "j_kv_delete_exec", "j_kv_get_exec"}
    THEN "kv" ELSE "object"

(* gboolean ret = ...; at the top of each exec function *)
InitialRet(fn) ==
    IF fn \in {"j_object_create_exec", "j_object_delete_exec", "j_object_status_exec"}
    THEN FALSE ELSE TRUE

NameOf(op) == handles[op.handle].name
NamespaceOf(op) == handles[op.handle].namespace
IndexOf(op) == handles[op.handle].index

AddTo(f, k, n) == [f EXCEPT ![k] = @ + n]

NoBytes == [c \in Counters |-> 0]

Start == [ok |-> TRUE, kv |-> kv_store[InProcess], object |-> object_store[InProcess],
          bytes |-> bytes, moved |-> NoBytes, out |-> <<>>, stray |-> 0,
          calls |-> <<>>]

(* a backend call: the function, what it was called on (a path, a key, the *)
(* handle or batch an earlier call returned), its arguments and its result *)
Call(fn, on, args, ok) == [call |-> fn, on |-> on, args |-> args, ok |-> ok]

(* a gpointer that no backend call has filled in *)
Uninitialized == <<>>

(* the write batch batch_start returned for the namespace *)
KvBatch(namespace) == <<namespace>>

(* the calls of a put or delete run: batch_start, one call per operation, *)
(* batch_execute                                                          *)
KvBatchCalls(fn, ops) ==
    <<Call("j_backend_kv_batch_start", NamespaceOf(ops[1]), <<>>, TRUE)>>
    \o [i \in 1..Len(ops) |->
          Call(fn, KvBatch(NamespaceOf(ops[1])), <<NameOf(ops[i]), ops[i].value>>, TRUE)]
    \o <<Call("j_backend_kv_batch_execute", KvBatch(NamespaceOf(ops[1])), <<>>, TRUE)>>

RECURSIVE KvPutLoop(_, _)
KvPutLoop(kv_batch, ops) ==
    IF ops = <<>> THEN kv_batch
    ELSE KvPutLoop(backend_put(kv_batch, NameOf(Head(ops)), Head(ops).value), Tail(ops))

j_kv_put_exec_local(ops) ==
    LET kv_batch == KvPutLoop(backend_batch_start(NamespaceOf(ops[1]), safety), ops)
        done == [Start EXCEPT !.kv = backend_batch_execute(@, kv_batch),
                              !.calls = KvBatchCalls("j_backend_kv_put", ops)]
    IN  done @@ [ret |-> done.ok]

RECURSIVE KvDeleteLoop(_, _)
KvDeleteLoop(kv_batch, ops) ==
    IF ops = <<>> THEN kv_batch
    ELSE KvDeleteLoop(backend_delete(kv_batch, NameOf(Head(ops))), Tail(ops))

j_kv_delete_exec_local(ops) ==
    LET kv_batch == KvDeleteLoop(backend_batch_start(NamespaceOf(ops[1]), safety), ops)
        done == [Start EXCEPT !.kv = backend_batch_execute(@, kv_batch),
                              !.calls = KvBatchCalls("j_backend_kv_delete", ops)]
    IN  done @@ [ret |-> done.ok]

(* a get loop that leaves the run at the first key it does not find *)
RECURSIVE KvGetLoopStopping(_, _)
KvGetLoopStopping(acc, ops) ==
    IF ops = <<>> \/ ~acc.ok THEN acc
    ELSE LET op == Head(ops)
             found == backend_get(acc.kv, NamespaceOf(op), NameOf(op))
             all == (found # NULL) /\ acc.ok
         IN  KvGetLoopStopping(
                 [acc EXCEPT !.ok = all,
                             !.out = Append(@, IF op.func /\ ~all THEN NULL ELSE found),
                             !.calls = Append(@, Call("j_backend_kv_get",
                                                      <<NamespaceOf(op), NameOf(op)>>,
                                                      <<>>, found # NULL))],
                 Tail(ops))

(* ret = j_backend_kv_get(...) && ret for every operation; with a callback *)
(* the value goes to a temporary and the callback runs if (ret), without   *)
(* one the backend fills the caller's value                                *)
RECURSIVE KvGetLoop(_, _)
KvGetLoop(acc, ops) ==
    IF ops = <<>> THEN acc
    ELSE LET op == Head(ops)
             found == backend_get(acc.kv, NamespaceOf(op), NameOf(op))
             all == (found # NULL) /\ acc.ok
         IN  KvGetLoop(
                 [acc EXCEPT !.ok = all,
                             !.out = Append(@, IF op.func /\ ~all THEN NULL ELSE found),
                             !.calls = Append(@, Call("j_backend_kv_get",
                                                      <<NamespaceOf(op), NameOf(op)>>,
                                                      <<>>, found # NULL))],
                 Tail(ops))

j_kv_get_exec_local(ops) ==
    LET done == KvGetLoop(Start, ops)
    IN  done @@ [ret |-> InitialRet("j_kv_get_exec") /\ done.ok]

RECURSIVE ObjectCreateLoop(_, _)
ObjectCreateLoop(acc, ops) ==
    IF ops = <<>> THEN acc
    ELSE LET path == ObjectPath(NamespaceOf(Head(ops)), NameOf(Head(ops)))
         IN  ObjectCreateLoop(
                 [acc EXCEPT !.object = object_create(@, path[1], path[2]),
                             !.calls = @ \o <<Call("j_backend_object_create", path,
                                                   <<>>, TRUE),
                                              Call("j_backend_object_close", path,
                                                   <<>>, TRUE)>>],
                 Tail(ops))

j_object_create_exec_local(ops) ==
    LET done == ObjectCreateLoop(Start, ops)
    IN  done @@ [ret |-> InitialRet("j_object_create_exec") /\ done.ok]

RECURSIVE ObjectDeleteLoop(_, _)
ObjectDeleteLoop(acc, ops) ==
    IF ops = <<>> THEN acc
    ELSE LET op == Head(ops)
             path == ObjectPath(NamespaceOf(op), NameOf(op))
         IN  ObjectDeleteLoop(
                 IF object_open(acc.object, NamespaceOf(op), NameOf(op))
                 THEN [acc EXCEPT !.object = object_delete(@, path),
                                  !.calls = @ \o <<Call("j_backend_object_open", path,
                                                        <<>>, TRUE),
                                                   Call("j_backend_object_delete", path,
                                                        <<>>, TRUE)>>]
                 ELSE [acc EXCEPT !.ok = FALSE, !.stray = @ + 1,
                                  !.calls = @ \o <<Call("j_backend_object_open", path,
                                                        <<>>, FALSE),
                                                   Call("j_backend_object_delete",
                                                        Uninitialized, <<>>, FALSE)>>],
                 Tail(ops))

j_object_delete_exec_local(ops) ==
    LET done == ObjectDeleteLoop(Start, ops)
    IN  done @@ [ret |-> InitialRet("j_object_delete_exec") /\ done.ok]

RECURSIVE ObjectStatusLoop(_, _)
ObjectStatusLoop(acc, ops) ==
    IF ops = <<>> THEN acc
    ELSE LET op == Head(ops)
             path == ObjectPath(NamespaceOf(op), NameOf(op))
         IN  ObjectStatusLoop(
                 IF object_open(acc.object, NamespaceOf(op), NameOf(op))
                 THEN [acc EXCEPT !.out = Append(@, object_status(acc.object, path)),
                                  !.calls = @ \o <<Call("j_backend_object_open", path,
                                                        <<>>, TRUE),
                                                   Call("j_backend_object_status", path,
                                                        <<>>, TRUE),
                                                   Call("j_backend_object_close", path,
                                                        <<>>, TRUE)>>]
                 ELSE [acc EXCEPT !.ok = FALSE, !.stray = @ + 2,
                                  !.out = Append(@, 0),
                                  !.calls = @ \o <<Call("j_backend_object_open", path,
                                                        <<>>, FALSE),
                                                   Call("j_backend_object_status",
                                                        Uninitialized, <<>>, FALSE),
                                                   Call("j_backend_object_close",
                                                        Uninitialized, <<>>, FALSE)>>],
                 Tail(ops))

j_object_status_exec_local(ops) ==
    LET done == ObjectStatusLoop(Start, ops)
    IN  done @@ [ret |-> InitialRet("j_object_status_exec") /\ done.ok]

(* the loop of j_object_read_exec on the handle opened for the first operation *)
RECURSIVE ObjectReadLoop(_, _, _)
ObjectReadLoop(acc, path, ops) ==
    IF ops = <<>> THEN acc
    ELSE LET op == Head(ops)
             nbytes == object_read(acc.object, path, op.length, op.offset)
         IN  ObjectReadLoop([acc EXCEPT !.bytes[op.counter] = nbytes,
                                        !.moved[op.counter] = @ + nbytes,
                                        !.out = Append(@, nbytes),
                                        !.calls = Append(@, Call("j_backend_object_read",
                                                                 path,
                                                                 <<op.length, op.offset>>,
                                                                 TRUE))],
                            path, Tail(ops))

(* the calls of a run whose open failed: object_handle was never assigned *)
CallsUninitialized(fn, ops) ==
    [i \in 1..Len(ops) |->
        Call(fn, Uninitialized, <<ops[i].length, ops[i].offset>>, FALSE)]

(* the run with its open before the loop and its close after it *)
Opened(fn, ops, opened, looped) ==
    LET path == ObjectPath(NamespaceOf(ops[1]), NameOf(ops[1]))
        failed == [looped EXCEPT !.ok = FALSE, !.stray = Len(ops) + 1,
                                 !.out = [i \in 1..Len(ops) |-> 0],
                                 !.calls = CallsUninitialized(fn, ops)]
        body == IF opened THEN looped ELSE failed
    IN  [body EXCEPT !.calls =
            <<Call("j_backend_object_open", path, <<>>, opened)>>
            \o @ \o
            <<Call("j_backend_object_close",
                   IF opened THEN path ELSE Uninitialized, <<>>, opened)>>]

(* a read run that opens the object again for every operation and closes *)
(* what it opened last                                                    *)
j_object_read_exec_local_reopening(ops) ==
    LET path == ObjectPath(NamespaceOf(ops[1]), NameOf(ops[1]))
        opened == object_open(object_store[InProcess], path[1], path[2])
        looped == IF opened THEN ObjectReadLoop(Start, path, ops) ELSE Start
        done == Opened("j_backend_object_read", ops, opened, looped)
        again == [done EXCEPT !.calls =
                    [i \in 1..(Len(ops) - 1) |->
                        Call("j_backend_object_open", path, <<>>, opened)] \o @]
    IN  again @@ [ret |-> InitialRet("j_object_read_exec") /\ again.ok]

j_object_read_exec_local(ops) ==
    LET path == ObjectPath(NamespaceOf(ops[1]), NameOf(ops[1]))
        opened == object_open(object_store[InProcess], path[1], path[2])
        looped == IF opened THEN ObjectReadLoop(Start, path, ops) ELSE Start
        done == Opened("j_backend_object_read", ops, opened, looped)
    IN  done @@ [ret |-> InitialRet("j_object_read_exec") /\ done.ok]

(* safety none: j_helper_atomic_add(bytes_written, length) after each write *)
Optimistic(s, length) == IF s = J_SEMANTICS_SAFETY_NONE THEN length ELSE 0

RECURSIVE ObjectWriteLoop(_, _, _)
ObjectWriteLoop(acc, path, ops) ==
    IF ops = <<>> THEN acc
    ELSE LET op == Head(ops)
         IN  ObjectWriteLoop(
                 [acc EXCEPT !.object = object_write(@, path, op.length, op.offset),
                             !.bytes[op.counter] = op.length + Optimistic(safety, op.length),
                             !.moved[op.counter] = @ + op.length,
                             !.out = Append(@, op.length),
                             !.calls = Append(@, Call("j_backend_object_write", path,
                                                      <<op.length, op.offset>>, TRUE))],
                 path, Tail(ops))

RECURSIVE OptimisticLoop(_, _)
OptimisticLoop(b, ops) ==
    IF ops = <<>> THEN b
    ELSE OptimisticLoop(AddTo(b, Head(ops).counter, Optimistic(safety, Head(ops).length)),
                        Tail(ops))

j_object_write_exec_local(ops) ==
    LET path == ObjectPath(NamespaceOf(ops[1]), NameOf(ops[1]))
        opened == object_open(object_store[InProcess], path[1], path[2])
        looped == IF opened THEN ObjectWriteLoop(Start, path, ops)
                  ELSE [Start EXCEPT !.bytes = OptimisticLoop(@, ops)]
        done == Opened("j_backend_object_write", ops, opened, looped)
    IN  done @@ [ret |-> InitialRet("j_object_write_exec") /\ done.ok]

ExecLocal(fn, ops) ==
    CASE fn = "j_kv_put_exec" -> j_kv_put_exec_local(ops)
      [] fn = "j_kv_delete_exec" -> j_kv_delete_exec_local(ops)
      [] fn = "j_kv_get_exec" -> j_kv_get_exec_local(ops)
      [] fn = "j_object_create_exec" -> j_object_create_exec_local(ops)
      [] fn = "j_object_delete_exec" -> j_object_delete_exec_local(ops)
      [] fn = "j_object_status_exec" -> j_object_status_exec_local(ops)
      [] fn = "j_object_read_exec" -> j_object_read_exec_local(ops)
      [] fn = "j_object_write_exec" -> j_object_write_exec_local(ops)

(***************************************************************************)
(* Messages, the connection pool and the server.                           *)
(***************************************************************************)
Indexes == {0, 1}

(* flags of a request for the safety of the semantics *)
j_message_set_safety(s) ==
    IF s = J_SEMANTICS_SAFETY_NONE THEN {}
    ELSE IF s = J_SEMANTICS_SAFETY_NETWORK THEN {"SAFETY_NETWORK"}
    ELSE {"SAFETY_NETWORK", "SAFETY_STORAGE"}

Payload(op) ==
    [name |-> NameOf(op), value |-> op.value, length |-> op.length,
     offset |-> op.offset]

(* the request an exec function builds: j_message_new, j_message_set_safety, *)
(* one j_message_add_operation per operation of the run                      *)
Message(fn, ops) ==
    [op |-> fn, flags |-> j_message_set_safety(safety),
     namespace |-> NamespaceOf(ops[1]), name |-> NameOf(ops[1]),
     operations |-> [i \in 1..Len(ops) |-> Payload(ops[i])]]

(* whether the exec function calls j_message_receive after j_message_send *)
ExpectsReplyNever(fn, message) == FALSE
ExpectsReply(fn, message) ==
    IF fn \in {"j_kv_get_exec", "j_object_read_exec", "j_object_status_exec"}
    THEN TRUE
    ELSE "SAFETY_NETWORK" \in message.flags

NewConnection(kind, index) ==
    [kind |-> kind, index |-> index, state |-> "live", inq |-> <<>>, outq |-> <<>>]

OpenConnections(kind, index) ==
    Cardinality({c \in DOMAIN conns : /\ conns[c].kind = kind
                                      /\ conns[c].index = index
                                      /\ conns[c].state # "closed"})

(* j_connection_pool_pop: the idle connection on top, else a new one *)
CanPop(kind, index) ==
    \/ pool[kind][index] # <<>>
    \/ OpenConnections(kind, index) < MaxConnections

Popped(kind, index) ==
    IF pool[kind][index] # <<>>
    THEN pool[kind][index][Len(pool[kind][index])]
    ELSE Len(conns) + 1

PoolAfterPop(kind, index) ==
    IF pool[kind][index] # <<>>
    THEN [pool EXCEPT ![kind][index] = SubSeq(@, 1, Len(@) - 1)]
    ELSE pool

ConnsAfterPop(kind, index) ==
    IF pool[kind][index] # <<>> THEN conns
    ELSE Append(conns, NewConnection(kind, index))

(* j_connection_pool_push: a healthy connection goes back on top *)
PushIndexOther(index) == 1 - index
PushIndex(index) == index

PoolAfterPush(kind, index, c) ==
    IF conns[c].state = "live"
    THEN [pool EXCEPT ![kind][PushIndex(index)] = Append(@, c)]
    ELSE pool

ConnsAfterPush(c) ==
    IF conns[c].state = "live" THEN conns
    ELSE [conns EXCEPT ![c].state = "closed"]

(* the server: one request against the backends of server index *)
RECURSIVE ServerPutLoop(_, _)
ServerPutLoop(kv_batch, payloads) ==
    IF payloads = <<>> THEN kv_batch
    ELSE ServerPutLoop(backend_put(kv_batch, Head(payloads).name, Head(payloads).value),
                       Tail(payloads))

RECURSIVE ServerDeleteLoop(_, _)
ServerDeleteLoop(kv_batch, payloads) ==
    IF payloads = <<>> THEN kv_batch
    ELSE ServerDeleteLoop(backend_delete(kv_batch, Head(payloads).name), Tail(payloads))

MessageSafety(message) ==
    IF "SAFETY_STORAGE" \in message.flags THEN J_SEMANTICS_SAFETY_STORAGE
    ELSE IF "SAFETY_NETWORK" \in message.flags THEN J_SEMANTICS_SAFETY_NETWORK
    ELSE J_SEMANTICS_SAFETY_NONE

RECURSIVE ServerObjectLoop(_, _, _)
ServerObjectLoop(acc, message, payloads) ==
    IF payloads = <<>> THEN acc
    ELSE LET p == Head(payloads)
             own == ObjectPath(message.namespace, p.name)
             run_path == ObjectPath(message.namespace, message.name)
             next ==
               CASE message.op = "j_object_create_exec" ->
                      [acc EXCEPT !.object = object_create(@, own[1], own[2])]
                 [] message.op = "j_object_delete_exec" ->
                      IF object_open(acc.object, own[1], own[2])
                      THEN [acc EXCEPT !.object = object_delete(@, own)]
                      ELSE acc
                 [] message.op = "j_object_status_exec" ->
                      [acc EXCEPT !.results = Append(@,
                          IF object_open(acc.object, own[1], own[2])
                          THEN object_status(acc.object, own) ELSE 0)]
                 [] message.op = "j_object_read_exec" ->
                      [acc EXCEPT !.results = Append(@,
                          IF object_open(acc.object, run_path[1], run_path[2])
                          THEN object_read(acc.object, run_path, p.length, p.offset)
                          ELSE 0)]
                 [] message.op = "j_object_write_exec" ->
                      IF object_open(acc.object, run_path[1], run_path[2])
                      THEN [acc EXCEPT
                              !.object = object_write(@, run_path, p.length, p.offset),
                              !.results = Append(@, p.length)]
                      ELSE [acc EXCEPT !.results = Append(@, 0)]
         IN  ServerObjectLoop(next, message, Tail(payloads))

(* the stores after the request and the results its reply carries *)
Served(message, index) ==
    LET db == kv_store[index]
        before == [kv |-> db, object |-> object_store[index], results |-> <<>>]
    IN  CASE message.op = "j_kv_put_exec" ->
               [before EXCEPT !.kv = backend_batch_execute(db,
                   ServerPutLoop(backend_batch_start(message.namespace,
                                                     MessageSafety(message)),
                                 message.operations))]
          [] message.op = "j_kv_delete_exec" ->
               [before EXCEPT !.kv = backend_batch_execute(db,
                   ServerDeleteLoop(backend_batch_start(message.namespace,
                                                        MessageSafety(message)),
                                    message.operations))]
          [] message.op = "j_kv_get_exec" ->
               [before EXCEPT !.results =
                   [i \in 1..Len(message.operations) |->
                       backend_get(db, message.namespace, message.operations[i].name)]]
          [] OTHER -> ServerObjectLoop(before, message, message.operations)

ProducesData(message) ==
    message.op \in {"j_kv_get_exec", "j_object_read_exec", "j_object_status_exec"}

(* whether the server sends a reply for the request *)
ServerReplies(message) ==
    \/ "SAFETY_NETWORK" \in message.flags
    \/ ProducesData(message) /\ replies_unflagged

Frame(count, results) == [count |-> count, results |-> results]

(* the reply of a request: one frame, or for a read one frame per operation *)
ReplyFrames(message, results, split) ==
    IF split
    THEN [i \in 1..Len(message.operations) |-> Frame(1, <<results[i]>>)]
    ELSE <<Frame(Len(message.operations), results)>>

(***************************************************************************)
(* Enqueueing operations: j_kv_put, j_kv_delete, j_kv_get, j_object_create,*)
(* j_object_delete, j_object_read, j_object_write, j_object_status.        *)
(***************************************************************************)
(* operations each thread and all threads together may still enqueue *)
Budget(total) ==
    [thread |-> [t \in Threads |-> IF t = 1 THEN total ELSE Min(total, MaxOpsOther)],
     total |-> total]

(* references of thread t on h that belong to the operations of its batch *)
Borrowed(t, h) == Cardinality({i \in 1..Len(batch[t]) : batch[t][i].handle = h})

(* references of thread t on h that belong to the application *)
OwnedByCaller(t, h) == held[t][h] - Borrowed(t, h)

(* an enqueue that stores the handle without taking a reference *)
EnqueueWithoutRef(t, h, kind, operation) ==
    /\ pc[t] = "open"
    /\ ops_left.thread[t] > 0
    /\ ops_left.total > 0
    /\ h \in DOMAIN handles
    /\ handles[h].kind = kind
    /\ OwnedByCaller(t, h) > 0
    /\ UNCHANGED <<handles, held, freed>>
    /\ batch' = [batch EXCEPT ![t] = Append(@, operation)]
    /\ ops_left' = [ops_left EXCEPT !.thread[t] = @ - 1, !.total = @ - 1]
    /\ UNCHANGED <<kv_server_count, object_server_count, last_new, cfgVars,
                   pc, todo, run, conn, ret, result, rx, log, netVars, storeVars,
                   moved>>

(* kop->put.kv = j_kv_ref(kv); ...; j_batch_add(batch, operation) *)
Enqueue(t, h, kind, operation) ==
    /\ pc[t] = "open"
    /\ ops_left.thread[t] > 0
    /\ ops_left.total > 0
    /\ h \in DOMAIN handles
    /\ handles[h].kind = kind
    /\ OwnedByCaller(t, h) > 0
    /\ SetRefState(RefIn(RefState, t, h))
    /\ batch' = [batch EXCEPT ![t] = Append(@, operation)]
    /\ ops_left' = [ops_left EXCEPT !.thread[t] = @ - 1, !.total = @ - 1]
    /\ UNCHANGED <<kv_server_count, object_server_count, last_new, cfgVars,
                   pc, todo, run, conn, ret, result, rx, log, netVars, storeVars,
                   moved>>

j_kv_put(t, kv, value) ==
    /\ Enqueue(t, kv, "kv", Operation("j_kv_put_exec", kv, value, 0, 0, NULL))
    /\ UNCHANGED <<bytes, expected>>

j_kv_delete(t, kv) ==
    /\ Enqueue(t, kv, "kv", Operation("j_kv_delete_exec", kv, NULL, 0, 0, NULL))
    /\ UNCHANGED <<bytes, expected>>

j_kv_get(t, kv) ==
    /\ Enqueue(t, kv, "kv", Operation("j_kv_get_exec", kv, NULL, 0, 0, NULL))
    /\ UNCHANGED <<bytes, expected>>

(* kop->get.func = func *)
j_kv_get_callback(t, kv) ==
    /\ Enqueue(t, kv, "kv",
               [Operation("j_kv_get_exec", kv, NULL, 0, 0, NULL) EXCEPT !.func = TRUE])
    /\ UNCHANGED <<bytes, expected>>

j_object_create(t, object) ==
    /\ Enqueue(t, object, "object",
               Operation("j_object_create_exec", object, NULL, 0, 0, NULL))
    /\ UNCHANGED <<bytes, expected>>

j_object_delete(t, object) ==
    /\ Enqueue(t, object, "object",
               Operation("j_object_delete_exec", object, NULL, 0, 0, NULL))
    /\ UNCHANGED <<bytes, expected>>

j_object_status(t, object) ==
    /\ Enqueue(t, object, "object",
               Operation("j_object_status_exec", object, NULL, 0, 0, NULL))
    /\ UNCHANGED <<bytes, expected>>

(* *bytes_read = 0; a plain store into the caller's counter *)
j_object_read(t, object, length, offset, counter) ==
    /\ Enqueue(t, object, "object",
               Operation("j_object_read_exec", object, NULL, length, offset, counter))
    /\ bytes' = [bytes EXCEPT ![counter] = 0]
    /\ expected' = [expected EXCEPT ![counter] = 0]

(* *bytes_written = 0; *)
j_object_write(t, object, length, offset, counter) ==
    /\ Enqueue(t, object, "object",
               Operation("j_object_write_exec", object, NULL, length, offset, counter))
    /\ bytes' = [bytes EXCEPT ![counter] = 0]
    /\ expected' = [expected EXCEPT ![counter] = 0]

(***************************************************************************)
(* j_batch_execute: the operations are executed run by run; a run is the   *)
(* longest prefix of operations with the same exec function and key.       *)
(***************************************************************************)
RECURSIVE RunLength(_)
RunLength(ops) ==
    IF Len(ops) < 2 THEN Len(ops)
    ELSE IF ops[2].exec_func = ops[1].exec_func /\ ops[2].key = ops[1].key
         THEN 1 + RunLength(Tail(ops))
         ELSE 1

FirstRun(ops) == SubSeq(ops, 1, RunLength(ops))
AfterFirstRun(ops) == SubSeq(ops, RunLength(ops) + 1, Len(ops))

BackendPresent(fn) == IF KindOf(fn) = "kv" THEN kv_backend ELSE object_backend

j_batch_execute(t) ==
    /\ pc[t] = "open"
    /\ batch[t] # <<>>
    /\ pc' = [pc EXCEPT ![t] = "dispatch"]
    /\ todo' = [todo EXCEPT ![t] = batch[t]]
    /\ result' = [result EXCEPT ![t] = TRUE]
    /\ UNCHANGED <<refVars, cfgVars, batch, run, conn, ret, rx, log, ops_left,
                   netVars, storeVars, countVars>>

(* what a completed run leaves in the log of its thread *)
Summary(fn, ops, r, ok, out, local, c, index, flags, received, ioerr, first, last,
        calls) ==
    [fn |-> fn, h |-> ops[1].handle, ops |-> ops, ret |-> r, ok |-> ok, out |-> out,
     local |-> local, conn |-> c, index |-> index, flags |-> flags,
     received |-> received, ioerr |-> ioerr, first |-> first, last |-> last,
     calls |-> calls]

Plus(f, g) == [c \in Counters |-> f[c] + g[c]]

(* a run on the in-process backend *)
ExecLocalRun(t) ==
    /\ pc[t] = "dispatch"
    /\ todo[t] # <<>>
    /\ BackendPresent(todo[t][1].exec_func)
    /\ LET ops == FirstRun(todo[t])
           fn == ops[1].exec_func
           done == ExecLocal(fn, ops)
       IN  /\ kv_store' = [kv_store EXCEPT ![InProcess] = done.kv]
           /\ object_store' = [object_store EXCEPT ![InProcess] = done.object]
           /\ commits' = commits \cup
                IF KindOf(fn) = "kv" /\ fn # "j_kv_get_exec"
                THEN Committed(backend_batch_start(NamespaceOf(ops[1]), safety))
                ELSE {}
           /\ bytes' = done.bytes
           /\ moved' = [moved EXCEPT ![t] = Plus(@, done.moved)]
           /\ result' = [result EXCEPT ![t] = done.ret /\ @]
           /\ log' = [log EXCEPT ![t] = Append(@,
                        Summary(fn, ops, done.ret, done.ok, done.out, TRUE, 0,
                                IndexOf(ops[1]), {}, 0, FALSE,
                                Len(todo[t]) = Len(batch[t]),
                                AfterFirstRun(todo[t]) = <<>>, done.calls))]
           /\ todo' = [todo EXCEPT ![t] = AfterFirstRun(@)]
    /\ UNCHANGED <<refVars, cfgVars, pc, batch, run, conn, ret, rx, ops_left,
                   netVars, expected>>

(***************************************************************************)
(* The remote path of the exec functions: build the request, pop a         *)
(* connection, send, receive the reply where the function does, push.      *)
(***************************************************************************)
NoProgress == [done |-> 0, out |-> <<>>, received |-> 0, ioerr |-> FALSE]

RECURSIVE AddResults(_, _, _)
AddResults(b, ops, results) ==
    IF ops = <<>> \/ results = <<>> THEN b
    ELSE AddResults(AddTo(b, Head(ops).counter, Head(results)), Tail(ops), Tail(results))

RECURSIVE Optimistics(_)
Optimistics(ops) ==
    IF ops = <<>> THEN <<>>
    ELSE <<Optimistic(safety, Head(ops).length)>> \o Optimistics(Tail(ops))

(* delivered = FALSE: j_message_send fails and the connection is broken *)
Send(t, delivered) ==
    /\ pc[t] = "dispatch"
    /\ todo[t] # <<>>
    /\ ~BackendPresent(todo[t][1].exec_func)
    /\ LET ops == FirstRun(todo[t])
           fn == ops[1].exec_func
           kind == KindOf(fn)
           index == IndexOf(ops[1])
           c == Popped(kind, index)
           message == Message(fn, ops)
           added == IF fn = "j_object_write_exec" THEN Optimistics(ops) ELSE <<>>
       IN  /\ CanPop(kind, index)
           /\ pool' = PoolAfterPop(kind, index)
           /\ conns' = IF delivered
                       THEN [ConnsAfterPop(kind, index) EXCEPT ![c].inq = Append(@, message)]
                       ELSE [ConnsAfterPop(kind, index) EXCEPT ![c].state = "broken"]
           /\ conn' = [conn EXCEPT ![t] = c]
           /\ run' = [run EXCEPT ![t] = ops]
           /\ todo' = [todo EXCEPT ![t] = AfterFirstRun(@)]
           /\ ret' = [ret EXCEPT ![t] = InitialRet(fn)]
           /\ rx' = [rx EXCEPT ![t] = [NoProgress EXCEPT !.ioerr = ~delivered]]
           /\ bytes' = AddResults(bytes, ops, added)
           /\ moved' = [moved EXCEPT ![t] = AddResults(@, ops, added)]
           /\ pc' = [pc EXCEPT ![t] = IF ExpectsReply(fn, message) THEN "recv" ELSE "push"]
    /\ UNCHANGED <<refVars, cfgVars, batch, result, log, ops_left, storeVars, expected>>

ExecSend(t) ==
    /\ Send(t, TRUE)
    /\ UNCHANGED failures

ExecSendFailed(t) ==
    /\ failures < MaxFailures
    /\ Send(t, FALSE)
    /\ failures' = failures + 1

(* the reply frame at hand is consumed by the exec function of the run *)
Consume(t, frame, failed) ==
    LET ops == run[t]
        fn == ops[1].exec_func
        rest == SubSeq(ops, rx[t].done + 1, Len(ops))
        counted == fn \in {"j_object_read_exec", "j_object_write_exec"}
        data == fn \in {"j_kv_get_exec", "j_object_read_exec", "j_object_status_exec",
                        "j_object_write_exec"}
        taken == IF fn = "j_object_read_exec"
                 THEN SubSeq(frame.results, 1, Min(frame.count, Len(rest)))
                 ELSE IF data
                 THEN SubSeq(frame.results, 1, Min(Len(frame.results), Len(rest)))
                 ELSE <<>>
        after == [done |-> IF data THEN rx[t].done + frame.count ELSE Len(ops),
                  out |-> rx[t].out \o taken,
                  received |-> rx[t].received + (IF failed THEN 0 ELSE 1),
                  ioerr |-> rx[t].ioerr \/ failed]
        finished == fn # "j_object_read_exec" \/ after.done >= Len(ops)
    IN  /\ rx' = [rx EXCEPT ![t] = after]
        /\ ret' = [ret EXCEPT ![t] =
                     IF fn = "j_kv_get_exec"
                     THEN (\A i \in 1..Len(taken) : taken[i] > 0) /\ @
                     ELSE @]
        /\ bytes' = IF counted THEN AddResults(bytes, rest, taken) ELSE bytes
        /\ moved' = IF counted THEN [moved EXCEPT ![t] = AddResults(@, rest, taken)]
                    ELSE moved
        /\ pc' = [pc EXCEPT ![t] = IF finished THEN "push" ELSE "recv"]

(* j_message_receive returns a reply frame *)
ExecReceive(t) ==
    /\ pc[t] = "recv"
    /\ conns[conn[t]].state = "live"
    /\ conns[conn[t]].outq # <<>>
    /\ Consume(t, Head(conns[conn[t]].outq), FALSE)
    /\ conns' = [conns EXCEPT ![conn[t]].outq = Tail(@)]
    /\ UNCHANGED <<refVars, cfgVars, batch, todo, run, conn, result, log, ops_left,
                   pool, failures, storeVars, expected>>

(* j_message_receive fails; its result is ignored and the reply buffer holds *)
(* whatever it held before: count and values are not determined             *)
ExecReceiveFailed(t) ==
    /\ pc[t] = "recv"
    /\ conns[conn[t]].state = "broken"
    /\ \E garbage \in {0, 1} :
         Consume(t, Frame(garbage * Len(run[t]), [i \in 1..Len(run[t]) |-> garbage]),
                 TRUE)
    /\ UNCHANGED <<refVars, cfgVars, batch, todo, run, conn, result, log, ops_left,
                   netVars, storeVars, expected>>

(* j_connection_pool_push, then return ret to j_batch_execute *)
ExecPush(t) ==
    /\ pc[t] = "push"
    /\ LET ops == run[t]
           fn == ops[1].exec_func
           kind == KindOf(fn)
           index == IndexOf(ops[1])
           c == conn[t]
           ok == /\ ~rx[t].ioerr
                 /\ fn = "j_kv_get_exec" =>
                      /\ Len(rx[t].out) = Len(ops)
                      /\ \A i \in 1..Len(ops) : rx[t].out[i] > 0
       IN  /\ pool' = PoolAfterPush(kind, index, c)
           /\ conns' = ConnsAfterPush(c)
           /\ result' = [result EXCEPT ![t] = ret[t] /\ @]
           /\ log' = [log EXCEPT ![t] = Append(@,
                        Summary(fn, ops, ret[t], ok, rx[t].out, FALSE, c, index,
                                Message(fn, ops).flags, rx[t].received, rx[t].ioerr,
                                Len(ops) + Len(todo[t]) = Len(batch[t]),
                                todo[t] = <<>>, <<>>))]
    /\ pc' = [pc EXCEPT ![t] = "dispatch"]
    /\ run' = [run EXCEPT ![t] = <<>>]
    /\ conn' = [conn EXCEPT ![t] = 0]
    /\ rx' = [rx EXCEPT ![t] = NoProgress]
    /\ UNCHANGED <<refVars, cfgVars, batch, todo, ret, ops_left, failures, storeVars,
                   countVars>>

(* the operations of the batch are freed: each drops its reference *)
RECURSIVE FreeOperations(_, _, _)
FreeOperations(st, t, ops) ==
    IF ops = <<>> THEN st
    ELSE FreeOperations(UnrefIn(st, t, Head(ops).handle), t, Tail(ops))

BatchDone(t) ==
    /\ pc[t] = "dispatch"
    /\ todo[t] = <<>>
    /\ SetRefState(FreeOperations(RefState, t, batch[t]))
    /\ batch' = [batch EXCEPT ![t] = <<>>]
    /\ pc' = [pc EXCEPT ![t] = "open"]
    /\ expected' = Plus(expected, moved[t])
    /\ moved' = [moved EXCEPT ![t] = NoBytes]
    /\ UNCHANGED <<kv_server_count, object_server_count, last_new, cfgVars, todo, run,
                   conn, ret, result, rx, log, ops_left, netVars, storeVars, bytes>>

(* a server worker handles the next request of its connection *)
SplitChoices(message) ==
    IF message.op = "j_object_read_exec" /\ Len(message.operations) > 1
    THEN BOOLEAN ELSE {FALSE}

(* the replies the protocol lets a server split: those with one result  *)
(* per operation                                                        *)
SplitProtocol(message) ==
    IF /\ message.op \in {"j_kv_get_exec", "j_object_read_exec",
                          "j_object_status_exec", "j_object_write_exec"}
       /\ Len(message.operations) > 1
    THEN BOOLEAN ELSE {FALSE}

Serve(c, Choices(_)) ==
    /\ conns[c].state = "live"
    /\ conns[c].inq # <<>>
    /\ LET message == Head(conns[c].inq)
           index == conns[c].index
           served == Served(message, index)
       IN  /\ kv_store' = [kv_store EXCEPT ![index] = served.kv]
           /\ object_store' = [object_store EXCEPT ![index] = served.object]
           /\ commits' = commits \cup
                IF message.op \in {"j_kv_put_exec", "j_kv_delete_exec"}
                THEN Committed(backend_batch_start(message.namespace,
                                                   MessageSafety(message)))
                ELSE {}
           /\ \E split \in Choices(message) :
                conns' = [conns EXCEPT
                            ![c].inq = Tail(@),
                            ![c].outq = IF ServerReplies(message)
                                        THEN @ \o ReplyFrames(message, served.results, split)
                                        ELSE @]
    /\ UNCHANGED <<refVars, cfgVars, threadVars, pool, failures, countVars>>

(* a server that answers a read in several frames when it likes *)
ServerStep(c) == Serve(c, SplitChoices)

(* a server that uses the protocol's freedom for every reply with results *)
ServerStepSplit(c) == Serve(c, SplitProtocol)

(* the connection a run waits on breaks *)
ConnBreak(c) ==
    /\ failures < MaxFailures
    /\ conns[c].state = "live"
    /\ \E t \in Threads : conn[t] = c /\ pc[t] = "recv"
    /\ conns' = [conns EXCEPT ![c].state = "broken", ![c].inq = <<>>, ![c].outq = <<>>]
    /\ failures' = failures + 1
    /\ UNCHANGED <<refVars, cfgVars, threadVars, pool, storeVars, countVars>>

(***************************************************************************)
(* Specifications.                                                         *)
(*   SpecRef   creation, ref and unref of handles by the threads           *)
(*   Spec      batches of one client family over a reliable transport      *)
(*   SpecFail  the same with wire failures                                 *)
(***************************************************************************)
Values == 1..MaxValue
Lengths == 1..MaxLength
Offsets == {0}

(* names of the handles the threads of Spec work on, one per thread *)
PipelineNames == << <<97>>, <<99>> >>

Stores == Indexes \cup {InProcess}

PipelineIdle ==
    /\ pc = [t \in Threads |-> "open"]
    /\ batch = [t \in Threads |-> <<>>]
    /\ todo = [t \in Threads |-> <<>>]
    /\ run = [t \in Threads |-> <<>>]
    /\ conn = [t \in Threads |-> 0]
    /\ ret = [t \in Threads |-> TRUE]
    /\ result = [t \in Threads |-> TRUE]
    /\ rx = [t \in Threads |-> NoProgress]
    /\ log = [t \in Threads |-> <<>>]
    /\ conns = <<>>
    /\ pool = [kind \in {"kv", "object"} |-> [index \in Indexes |-> <<>>]]
    /\ failures = 0
    /\ kv_store = [i \in Stores |-> <<>>]
    /\ object_store = [i \in Stores |-> <<>>]
    /\ commits = {}
    /\ bytes = NoBytes
    /\ expected = NoBytes
    /\ moved = [t \in Threads |-> NoBytes]

(* the caller holds no iterator *)
NoJLevelDBIterator ==
    [state |-> "none", prefix |-> <<>>, pos |-> <<>>, frees |-> 0,
     namespace |-> <<>>, asked |-> <<>>, ret |-> TRUE]

(* no iterator has been handed out and the database under test is empty *)
NoIterator ==
    /\ backend_db = <<>>
    /\ iterator = NoJLevelDBIterator
    /\ yielded = <<>>
    /\ stored = <<>>

(* the JBackgroundOperation j_background_operation_new returns for a      *)
(* function that is going to return func_result                           *)
(* a background operation created with a reference for its creator only *)
NewBackgroundOperationUnshared(func_result) ==
    [func_result |-> func_result, result |-> NULL, completed |-> FALSE,
     ref_count |-> 1, mutex |-> NULL, cond |-> {}]

NewBackgroundOperation(func_result) ==
    [func_result |-> func_result, result |-> NULL, completed |-> FALSE,
     ref_count |-> 2, mutex |-> NULL, cond |-> {}]

(* no background operation is under way *)
NoBackground ==
    /\ background_operation = [NewBackgroundOperation(NULL) EXCEPT !.ref_count = 0]
    /\ worker = "idle"
    /\ waiter = [t \in Threads |-> [pc |-> "idle", ret |-> NULL]]

(* the daemon is not under test and no configuration is being looked up *)
NoJulead == julead = [main |-> "none"]

NoLookup == lookup = [pc |-> "none"]

NoDaemon ==
    /\ NoJulead
    /\ NoLookup

(* no JDistribution has been created *)
NoJDistribution == [type |-> "none"]

NoDistribution ==
    /\ distribution = NoJDistribution
    /\ restored = NoJDistribution

(* what j_init can find: a configuration that loads or not, and for each  *)
(* backend its component, whether the module yields a backend and whether *)
(* the backend's init succeeds                                            *)
Environments ==
    [configuration : BOOLEAN,
     object_component : {"client", "server"}, object_loads : BOOLEAN,
     object_init : BOOLEAN,
     kv_component : {"client", "server"}, kv_loads : BOOLEAN, kv_init : BOOLEAN]

(* common = g_slice_new(JCommon); common->configuration = NULL *)
NewJCommon == [configuration |-> FALSE, object_backend |-> FALSE, kv_backend |-> FALSE]

(* j_init has run in an environment where everything loads *)
Initialized ==
    /\ environment = [configuration |-> TRUE,
                      object_component |-> "server", object_loads |-> TRUE,
                      object_init |-> TRUE,
                      kv_component |-> "server", kv_loads |-> TRUE, kv_init |-> TRUE]
    /\ common = [NewJCommon EXCEPT !.configuration = TRUE]
    /\ library = [pc |-> "done", j_common |-> TRUE, process |-> "running",
                  criticals |-> 0]

NoOperations ==
    /\ PipelineIdle
    /\ NoIterator
    /\ NoDaemon
    /\ NoBackground
    /\ NoDistribution
    /\ Initialized

InitRef ==
    /\ kv_server_count \in ServerCounts
    /\ object_server_count \in ServerCounts
    /\ handles = <<>>
    /\ held = [t \in Threads |-> <<>>]
    /\ freed = <<>>
    /\ last_new = [fn |-> "none", kind |-> "none", index |-> 0, ret |-> NULL]
    /\ family = "kv"
    /\ safety = J_SEMANTICS_SAFETY_NONE
    /\ kv_backend = FALSE
    /\ object_backend = FALSE
    /\ replies_unflagged = TRUE
    /\ ops_left = Budget(0)
    /\ NoOperations

NextRef ==
    \/ \E t \in Threads, ns \in Namespaces, n \in Names : j_kv_new(t, ns, n)
    \/ \E t \in Threads, ns \in Namespaces, n \in Names : j_object_new(t, ns, n)
    \/ \E t \in Threads, i \in 0..2, ns \in Namespaces, n \in Names :
         j_kv_new_for_index(t, i, ns, n)
    \/ \E t \in Threads, i \in 0..2, ns \in Namespaces, n \in Names :
         j_object_new_for_index(t, i, ns, n)
    \/ \E t \in Threads, u \in Threads, h \in HandleIds : j_kv_ref(t, u, h)
    \/ \E t \in Threads, h \in HandleIds : j_kv_unref(t, h)
    \/ \E t \in Threads, u \in Threads, h \in HandleIds : j_object_ref(t, u, h)
    \/ \E t \in Threads, h \in HandleIds : j_object_unref(t, h)

SpecRef == InitRef /\ [][NextRef]_vars

InitWith(total) ==
    /\ kv_server_count = Cardinality(Indexes)
    /\ object_server_count = Cardinality(Indexes)
    /\ family \in {"kv", "object"}
    /\ safety \in Safeties
    /\ kv_backend \in (IF family = "kv" THEN BOOLEAN ELSE {FALSE})
    /\ object_backend \in (IF family = "object" THEN BOOLEAN ELSE {FALSE})
    /\ replies_unflagged \in
         (IF safety = J_SEMANTICS_SAFETY_NONE /\ ~kv_backend /\ ~object_backend
          THEN BOOLEAN ELSE {TRUE})
    /\ handles = [h \in 1..Len(PipelineNames) |->
                    NewHandle(family,
                              HashIndex(PipelineNames[h], Cardinality(Indexes)),
                              <<110>>, PipelineNames[h])]
    /\ held = [t \in Threads |->
                 [h \in 1..Len(PipelineNames) |-> IF h = t THEN 1 ELSE 0]]
    /\ freed = [h \in 1..Len(PipelineNames) |-> 0]
    /\ last_new = [fn |-> "new", kind |-> family,
                   index |-> HashIndex(PipelineNames[Len(PipelineNames)],
                                       Cardinality(Indexes)),
                   ret |-> Len(PipelineNames)]
    /\ ops_left = Budget(total)
    /\ NoOperations

Init == InitWith(MaxOpsTotal)

Next ==
    \/ \E t \in Threads, h \in DOMAIN handles, value \in Values : j_kv_put(t, h, value)
    \/ \E t \in Threads, h \in DOMAIN handles : j_kv_delete(t, h)
    \/ \E t \in Threads, h \in DOMAIN handles : j_kv_get(t, h)
    \/ \E t \in Threads, h \in DOMAIN handles : j_object_create(t, h)
    \/ \E t \in Threads, h \in DOMAIN handles : j_object_delete(t, h)
    \/ \E t \in Threads, h \in DOMAIN handles : j_object_status(t, h)
    \/ \E t \in Threads, h \in DOMAIN handles, length \in Lengths, offset \in Offsets,
          counter \in Counters : j_object_read(t, h, length, offset, counter)
    \/ \E t \in Threads, h \in DOMAIN handles, length \in Lengths, offset \in Offsets,
          counter \in Counters : j_object_write(t, h, length, offset, counter)
    \/ \E t \in Threads : j_batch_execute(t)
    \/ \E t \in Threads : ExecLocalRun(t)
    \/ \E t \in Threads : ExecSend(t)
    \/ \E t \in Threads : ExecReceive(t)
    \/ \E t \in Threads : ExecPush(t)
    \/ \E t \in Threads : BatchDone(t)
    \/ \E c \in DOMAIN conns : ServerStep(c)

Spec == Init /\ [][Next]_vars

NextFail ==
    \/ Next
    \/ \E t \in Threads : ExecSendFailed(t)
    \/ \E t \in Threads : ExecReceiveFailed(t)
    \/ \E c \in DOMAIN conns : ConnBreak(c)

InitFail == InitWith(MaxOpsFail)

SpecFail == InitFail /\ [][NextFail]_vars

(***************************************************************************)
(* Properties.                                                             *)
(***************************************************************************)
Kinds == {"kv", "object"}

Entries(t) == {log[t][i] : i \in 1..Len(log[t])}

(* references the threads hold on handle h *)
RECURSIVE HeldBy(_, _)
HeldBy(S, h) ==
    IF S = {} THEN 0
    ELSE LET t == CHOOSE u \in S : TRUE IN held[t][h] + HeldBy(S \ {t}, h)

Owners(h) == HeldBy(Threads, h)

(* positions of connection c in the pools *)
IdleSlots(c) ==
    {slot \in Kinds \X Indexes \X (1..Len(conns)) :
        /\ slot[3] <= Len(pool[slot[1]][slot[2]])
        /\ pool[slot[1]][slot[2]][slot[3]] = c}

Lessees(c) == {t \in Threads : conn[t] = c}

PutThenGetNeverMissing ==
    \A t \in Threads : \A i \in 1..(Len(log[t]) - 1) :
        ( /\ safety = J_SEMANTICS_SAFETY_NONE
          /\ ~log[t][i].local
          /\ log[t][i].fn = "j_kv_put_exec"
          /\ log[t][i + 1].fn = "j_kv_get_exec"
          /\ log[t][i + 1].h = log[t][i].h )
        => log[t][i + 1].ret

(* C3: every open connection is either leased by exactly one run or idle   *)
(* exactly once in the pool of the server it was opened to, never both;    *)
(* a thread between runs holds no connection.                              *)
PooledConnectionExclusive ==
    /\ \A c \in DOMAIN conns :
         /\ Cardinality(Lessees(c)) + Cardinality(IdleSlots(c)) = 1
         /\ \A slot \in IdleSlots(c) :
              slot[1] = conns[c].kind /\ slot[2] = conns[c].index
    /\ \A t \in Threads :
         /\ pc[t] \in {"open", "dispatch"} => conn[t] = 0
         /\ pc[t] \in {"recv", "push"} =>
              /\ conn[t] \in DOMAIN conns
              /\ conns[conn[t]].kind = KindOf(run[t][1].exec_func)
              /\ conns[conn[t]].index = IndexOf(run[t][1])

PooledConnectionExclusiveWitness ==
    \E t \in Threads, u \in Threads :
        /\ t # u
        /\ pc[t] = "recv"
        /\ log[u] # <<>>
        /\ log[u][Len(log[u])].conn = conn[t]
        /\ \E c \in DOMAIN conns : c # conn[t] /\ IdleSlots(c) # {}

ExecReturnsConjunction ==
    \A t \in Threads : \A e \in Entries(t) : e.ret = e.ok

(* C6: a run whose send or receive failed on the wire reports failure, and *)
(* its connection is closed and not in the pool.                           *)
WireFailureReported ==
    \A t \in Threads : \A e \in Entries(t) :
        e.ioerr => /\ ~e.ret
                   /\ conns[e.conn].state = "closed"
                   /\ IdleSlots(e.conn) = {}

(* C7: the count of a handle equals the references held on it; the handle  *)
(* is alive while a reference is held and its memory is released exactly   *)
(* once, when the last reference is dropped.                               *)
HandleFreedOnceAtZero ==
    \A h \in DOMAIN handles :
        /\ handles[h].ref_count = Owners(h)
        /\ handles[h].live <=> Owners(h) > 0
        /\ freed[h] = (IF Owners(h) > 0 THEN 0 ELSE 1)

HandleFreedOnceAtZeroWitness ==
    \E h \in DOMAIN handles, g \in DOMAIN handles :
        /\ held[1][h] > 0
        /\ held[2][h] > 0
        /\ handles[h].ref_count = MaxRefs
        /\ freed[g] = 1

(* C8: every handle has a server index below the server count of its kind; *)
(* new stores hash(name) mod count, new_for_index stores the index asked   *)
(* for when it is below the count and returns NULL otherwise.              *)
HandleIndexBelowCount ==
    /\ \A h \in DOMAIN handles :
         handles[h].index < j_configuration_get_server_count(handles[h].kind)
    /\ last_new.fn = "new" =>
         /\ last_new.ret # NULL
         /\ handles[last_new.ret].index =
              (5381 * 33 + handles[last_new.ret].name[1])
                 % j_configuration_get_server_count(last_new.kind)
    /\ last_new.fn = "new_for_index" =>
         IF last_new.index < j_configuration_get_server_count(last_new.kind)
         THEN /\ last_new.ret # NULL
              /\ handles[last_new.ret].index = last_new.index
         ELSE last_new.ret = NULL

HandleIndexBelowCountWitness ==
    /\ last_new.fn = "new_for_index"
    /\ last_new.ret = NULL
    /\ \E h \in DOMAIN handles :
         /\ handles[h].index = 1
         /\ handles[h].index = j_configuration_get_server_count(handles[h].kind) - 1

(* C9: on the remote path, once no batch is executing, every counter holds *)
(* the sum of the byte counts of the operations that ran on it since it    *)
(* was last reset with no run on it under way.                             *)
CounterSumsUpdates ==
    (object_backend = FALSE /\ \A t \in Threads : pc[t] = "open")
    => \A c \in Counters : bytes[c] = expected[c]

(* C10: after a batch of a single write of length L under safety none,     *)
(* with no other operation on the counter, the counter equals L.           *)
UsesCounter(t) ==
    \/ \E i \in 1..Len(batch[t]) : batch[t][i].counter # NULL
    \/ \E e \in Entries(t) : e.ops[1].counter # NULL

SingleWriteCountsOnce ==
    \A t \in Threads :
        ( /\ safety = J_SEMANTICS_SAFETY_NONE
          /\ pc[t] = "open"
          /\ batch[t] = <<>>
          /\ log[t] # <<>>
          /\ log[t][Len(log[t])].fn = "j_object_write_exec"
          /\ Len(log[t][Len(log[t])].ops) = 1
          /\ log[t][Len(log[t])].first
          /\ log[t][Len(log[t])].last
          /\ \A u \in Threads \ {t} : ~UsesCounter(u) )
        => bytes[log[t][Len(log[t])].ops[1].counter] = log[t][Len(log[t])].ops[1].length


MaxStored == 2         \* entries the iterator specification stores

(* namespaces "n" and "n:a", keys "a", "b" and "a:b", prefixes "" and "a" *)
IterNamespaces == { <<110>>, <<110, 58, 97>> }
IterKeys == { <<97>>, <<98>>, <<97, 58, 98>> }
IterPrefixes == { <<>>, <<97>> }

(* leveldb's default comparator: memcmp, then the shorter key first *)
RECURSIVE BytewiseLess(_, _)
BytewiseLess(a, b) ==
    IF b = <<>> THEN FALSE
    ELSE IF a = <<>> THEN TRUE
    ELSE IF Head(a) # Head(b) THEN Head(a) < Head(b)
    ELSE BytewiseLess(Tail(a), Tail(b))

(* the bytes of a C string: those before its first NUL *)
RECURSIVE CString(_)
CString(s) ==
    IF s = <<>> \/ Head(s) = 0 THEN <<>>
    ELSE <<Head(s)>> \o CString(Tail(s))

g_str_has_prefix(str, prefix) ==
    LET s == CString(str)
        p == CString(prefix)
    IN  Len(p) <= Len(s) /\ SubSeq(s, 1, Len(p)) = p

First(keys) ==
    IF keys = {} THEN <<>>
    ELSE CHOOSE k \in keys : \A j \in keys : ~BytewiseLess(j, k)

(* the first stored key that is not before the target *)
leveldb_iter_seek(db, target) ==
    First({k \in DOMAIN db : ~BytewiseLess(k, target)})

leveldb_iter_next(db, pos) ==
    First({k \in DOMAIN db : BytewiseLess(pos, k)})

leveldb_iter_valid(pos) == pos # <<>>

(* the iterator is sought to the prefix with strlen(prefix) + 1 bytes *)
NewIterator(db, prefix) ==
    [state |-> "live", prefix |-> prefix,
     pos |-> leveldb_iter_seek(db, prefix \o <<0>>), frees |-> 0]

backend_get_all(db, namespace) == NewIterator(db, namespace \o <<58>>)

backend_get_by_prefix(db, namespace, prefix) ==
    NewIterator(db, namespace \o <<58>> \o prefix)

(* backend_iterate that keeps the iterator when it meets a foreign key *)
backend_iterate_keeping(db, it) ==
    IF leveldb_iter_valid(it.pos) /\ g_str_has_prefix(it.pos, it.prefix)
    THEN [ret |-> TRUE, value |-> db[it.pos],
          iterator |-> [it EXCEPT !.pos = leveldb_iter_next(db, it.pos)]]
    ELSE IF leveldb_iter_valid(it.pos)
    THEN [ret |-> FALSE, value |-> NULL, iterator |-> it]
    ELSE [ret |-> FALSE, value |-> NULL,
          iterator |-> [it EXCEPT !.state = "freed", !.frees = @ + 1]]

backend_iterate(db, it) ==
    IF leveldb_iter_valid(it.pos) /\ g_str_has_prefix(it.pos, it.prefix)
    THEN [ret |-> TRUE, value |-> db[it.pos],
          iterator |-> [it EXCEPT !.pos = leveldb_iter_next(db, it.pos)]]
    ELSE [ret |-> FALSE, value |-> NULL,
          iterator |-> [it EXCEPT !.state = "freed", !.frees = @ + 1]]

IterFrame == UNCHANGED <<clientVars, bgVars, distVars, initVars, srvVars>>

(* one batch with one put / one delete, executed at once; the caller has *)
(* dropped the iterator of a finished iteration by then                   *)
IterPut(namespace, key, value) ==
    /\ iterator.state # "live"
    /\ <<namespace, key>> \in DOMAIN stored \/ Cardinality(DOMAIN stored) < MaxStored
    /\ backend_db' = backend_batch_execute(backend_db,
                        backend_put(backend_batch_start(namespace, J_SEMANTICS_SAFETY_NONE),
                                    key, value))
    /\ stored' = Put(stored, <<namespace, key>>, value)
    /\ iterator' = NoJLevelDBIterator
    /\ yielded' = <<>>
    /\ IterFrame

IterDelete(namespace, key) ==
    /\ iterator.state # "live"
    /\ <<namespace, key>> \in DOMAIN stored
    /\ backend_db' = backend_batch_execute(backend_db,
                        backend_delete(backend_batch_start(namespace, J_SEMANTICS_SAFETY_NONE),
                                       key))
    /\ stored' = Without(stored, <<namespace, key>>)
    /\ iterator' = NoJLevelDBIterator
    /\ yielded' = <<>>
    /\ IterFrame

GetAll(namespace) ==
    /\ iterator.state # "live"
    /\ iterator' = backend_get_all(backend_db, namespace)
                   @@ [namespace |-> namespace, asked |-> <<>>, ret |-> TRUE]
    /\ yielded' = <<>>
    /\ UNCHANGED <<backend_db, stored>>
    /\ IterFrame

GetByPrefix(namespace, prefix) ==
    /\ iterator.state # "live"
    /\ iterator' = backend_get_by_prefix(backend_db, namespace, prefix)
                   @@ [namespace |-> namespace, asked |-> prefix, ret |-> TRUE]
    /\ yielded' = <<>>
    /\ UNCHANGED <<backend_db, stored>>
    /\ IterFrame

Iterate ==
    /\ iterator.state = "live"
    /\ LET r == backend_iterate(backend_db, iterator)
       IN  /\ iterator' = [r.iterator EXCEPT !.ret = r.ret]
           /\ yielded' = IF r.ret
                         THEN Append(yielded, [key |-> iterator.pos, value |-> r.value])
                         ELSE yielded
    /\ UNCHANGED <<backend_db, stored>>
    /\ IterFrame

(* the handle API and the pipeline at rest *)
NoClient ==
    /\ kv_server_count = 1
    /\ object_server_count = 1
    /\ handles = <<>>
    /\ held = [t \in Threads |-> <<>>]
    /\ freed = <<>>
    /\ last_new = [fn |-> "none", kind |-> "none", index |-> 0, ret |-> NULL]
    /\ family = "kv"
    /\ safety = J_SEMANTICS_SAFETY_NONE
    /\ kv_backend = FALSE
    /\ object_backend = FALSE
    /\ replies_unflagged = TRUE
    /\ ops_left = Budget(0)
    /\ PipelineIdle

InitIter ==
    /\ NoClient
    /\ NoIterator
    /\ NoDaemon
    /\ NoBackground
    /\ NoDistribution
    /\ Initialized

NextIter ==
    \/ \E ns \in IterNamespaces, key \in IterKeys, value \in Values :
         IterPut(ns, key, value)
    \/ \E ns \in IterNamespaces, key \in IterKeys : IterDelete(ns, key)
    \/ \E ns \in IterNamespaces : GetAll(ns)
    \/ \E ns \in IterNamespaces, prefix \in IterPrefixes : GetByPrefix(ns, prefix)
    \/ Iterate

SpecIter == InitIter /\ [][NextIter]_vars

(* the stored triples a finished iteration was asked for *)
Asked ==
    {e \in DOMAIN stored :
        /\ e[1] = iterator.namespace
        /\ Len(iterator.asked) <= Len(e[2])
        /\ SubSeq(e[2], 1, Len(iterator.asked)) = iterator.asked}

(* C12: when an iteration started by get_all or get_by_prefix has returned *)
(* FALSE, the values it yielded are those of all and only the stored keys  *)
(* of the namespace that start with the prefix, one value per key.         *)
IterationYieldsNamespace ==
    iterator.state = "freed"
    => /\ Len(yielded) = Cardinality(Asked)
       /\ {yielded[i].value : i \in 1..Len(yielded)} = {stored[e] : e \in Asked}


(* the stored keys inside the iterator's prefix that it has not yielded yet *)
Remaining ==
    {k \in DOMAIN backend_db : g_str_has_prefix(k, iterator.prefix)}
    \ {yielded[i].key : i \in 1..Len(yielded)}

(* C13: an iterator is freed exactly once, by the first backend_iterate    *)
(* call that returns FALSE: while it is live every call has returned TRUE  *)
(* and nothing was freed, and once it is freed the last call returned      *)
(* FALSE, no stored key inside the prefix was left out and the iterator    *)
(* was freed one time.                                                     *)
IteratorFreedOnce ==
    /\ iterator.frees <= 1
    /\ iterator.state = "live" => (iterator.frees = 0 /\ iterator.ret)
    /\ iterator.state = "freed"
       => (iterator.frees = 1 /\ ~iterator.ret /\ Remaining = {})
    /\ (iterator.state # "none" /\ ~iterator.ret) => iterator.state = "freed"

(* an iteration that yielded a value and ended on a key outside its prefix *)
IteratorFreedOnceWitness ==
    /\ iterator.state = "freed"
    /\ iterator.frees = 1
    /\ Len(yielded) >= 1
    /\ leveldb_iter_valid(iterator.pos)
    /\ ~g_str_has_prefix(iterator.pos, iterator.prefix)


FuncResults == {1, 2}

(* the pool thread, as an owner of the mutex *)
PoolThread == Cardinality(Threads) + 1

BgFrame == UNCHANGED <<clientVars, iterVars, distVars, initVars, srvVars>>

(* j_background_operation_thread: result = func(data) *)
ThreadFunc ==
    /\ worker = "func"
    /\ background_operation' =
         [background_operation EXCEPT !.result = background_operation.func_result]
    /\ worker' = "lock"
    /\ UNCHANGED waiter
    /\ BgFrame

ThreadLock ==
    /\ worker = "lock"
    /\ background_operation.mutex = NULL
    /\ background_operation' = [background_operation EXCEPT !.mutex = PoolThread]
    /\ worker' = "complete"
    /\ UNCHANGED waiter
    /\ BgFrame

ThreadComplete ==
    /\ worker = "complete"
    /\ background_operation' = [background_operation EXCEPT !.completed = TRUE]
    /\ worker' = "signal"
    /\ UNCHANGED waiter
    /\ BgFrame

(* g_cond_signal: one of the threads blocked on the condition, if any *)
g_cond_signal(cond) == IF cond = {} THEN {{}} ELSE {{t} : t \in cond}

ThreadSignal ==
    /\ worker = "signal"
    /\ \E woken \in g_cond_signal(background_operation.cond) :
         /\ background_operation' = [background_operation EXCEPT !.cond = @ \ woken]
         /\ waiter' = [t \in Threads |->
                         IF t \in woken THEN [waiter[t] EXCEPT !.pc = "woken"]
                         ELSE waiter[t]]
    /\ worker' = "unlock"
    /\ BgFrame

ThreadUnlock ==
    /\ worker = "unlock"
    /\ background_operation' = [background_operation EXCEPT !.mutex = NULL]
    /\ worker' = "unref"
    /\ UNCHANGED waiter
    /\ BgFrame

ThreadUnref ==
    /\ worker = "unref"
    /\ background_operation' = [background_operation EXCEPT !.ref_count = @ - 1]
    /\ worker' = "done"
    /\ UNCHANGED waiter
    /\ BgFrame

(* a thread holding a reference calls j_background_operation_wait *)
WaitCall(t) ==
    /\ waiter[t].pc = "idle"
    /\ background_operation.ref_count > 0
    /\ waiter' = [waiter EXCEPT ![t].pc = "lock"]
    /\ UNCHANGED <<background_operation, worker>>
    /\ BgFrame

(* g_mutex_lock, and the lock g_cond_wait takes again before it returns *)
WaitLock(t) ==
    /\ waiter[t].pc \in {"lock", "woken"}
    /\ background_operation.mutex = NULL
    /\ background_operation' = [background_operation EXCEPT !.mutex = t]
    /\ waiter' = [waiter EXCEPT ![t].pc = "test"]
    /\ UNCHANGED worker
    /\ BgFrame

(* while (!completed) g_cond_wait(cond, mutex): releases the mutex and blocks *)
WaitTest(t) ==
    /\ waiter[t].pc = "test"
    /\ IF background_operation.completed
       THEN /\ waiter' = [waiter EXCEPT ![t].pc = "unlock"]
            /\ UNCHANGED background_operation
       ELSE /\ waiter' = [waiter EXCEPT ![t].pc = "blocked"]
            /\ background_operation' =
                 [background_operation EXCEPT !.mutex = NULL, !.cond = @ \cup {t}]
    /\ UNCHANGED worker
    /\ BgFrame

(* g_cond_wait may return without a signal *)
SpuriousWakeup(t) ==
    /\ waiter[t].pc = "blocked"
    /\ background_operation' = [background_operation EXCEPT !.cond = @ \ {t}]
    /\ waiter' = [waiter EXCEPT ![t].pc = "woken"]
    /\ UNCHANGED worker
    /\ BgFrame

WaitUnlock(t) ==
    /\ waiter[t].pc = "unlock"
    /\ background_operation' = [background_operation EXCEPT !.mutex = NULL]
    /\ waiter' = [waiter EXCEPT ![t].pc = "return"]
    /\ UNCHANGED worker
    /\ BgFrame

(* return background_operation->result *)
WaitReturn(t) ==
    /\ waiter[t].pc = "return"
    /\ waiter' = [waiter EXCEPT ![t] = [pc |-> "returned",
                                         ret |-> background_operation.result]]
    /\ UNCHANGED <<background_operation, worker>>
    /\ BgFrame

(* after j_background_operation_new: the operation is pushed to the pool *)
InitBg ==
    /\ NoClient
    /\ NoIterator
    /\ NoDaemon
    /\ NoDistribution
    /\ Initialized
    /\ \E r \in FuncResults : background_operation = NewBackgroundOperation(r)
    /\ worker = "func"
    /\ waiter = [t \in Threads |-> [pc |-> "idle", ret |-> NULL]]

ThreadStep ==
    \/ ThreadFunc
    \/ ThreadLock
    \/ ThreadComplete
    \/ ThreadSignal
    \/ ThreadUnlock
    \/ ThreadUnref

WaitStep(t) ==
    \/ WaitLock(t)
    \/ WaitTest(t)
    \/ WaitUnlock(t)
    \/ WaitReturn(t)

NextBg ==
    \/ ThreadStep
    \/ \E t \in Threads : WaitCall(t)
    \/ \E t \in Threads : WaitStep(t)
    \/ \E t \in Threads : SpuriousWakeup(t)

(* the pool thread runs and the function terminates; a thread inside       *)
(* j_background_operation_wait runs whenever it is not blocked, and a      *)
(* thread that asks for the mutex again and again gets it (strong          *)
(* fairness).  Nothing obliges a thread to call wait, or g_cond_wait to    *)
(* wake without a signal.                                                  *)
FairBg ==
    /\ SF_vars(ThreadStep)
    /\ \A t \in Threads : SF_vars(WaitStep(t))

SpecBg == InitBg /\ [][NextBg]_vars /\ FairBg

(* C15: a thread that has called j_background_operation_wait eventually    *)
(* returns from it, whether it called before or after the function         *)
(* finished.                                                               *)
WaitEventuallyReturns ==
    \A t \in Threads : (waiter[t].pc # "idle") ~> (waiter[t].pc = "returned")


(***************************************************************************)
(* Distributions.  A JDistribution is [type, distribution]; the strategy   *)
(* structure carries made_by, the strategy whose distribution_new          *)
(* allocated it.  Sizes are in bytes.                                      *)
(***************************************************************************)
MiB == 1024 * 1024
J_STRIPE_SIZE == 4 * MiB

J_DISTRIBUTION_ROUND_ROBIN == "round-robin"
J_DISTRIBUTION_SINGLE_SERVER == "single-server"
J_DISTRIBUTION_WEIGHTED == "weighted"
JDistributionTypes ==
    {J_DISTRIBUTION_ROUND_ROBIN, J_DISTRIBUTION_SINGLE_SERVER, J_DISTRIBUTION_WEIGHTED}

MaxWeight == 2         \* weights of the weighted strategy are 0..MaxWeight

DistServerCounts == {1, 3}
DistBlockSizes == {MiB, 8 * MiB}
DistLengths == {0, MiB, 10 * MiB}
DistOffsets == {0, 2 * MiB}

Servers(count) == 0..(count - 1)

Sum(weights) ==
    LET S[n \in 0..Cardinality(DOMAIN weights)] ==
            IF n = 0 THEN 0 ELSE S[n - 1] + weights[n - 1]
    IN  S[Cardinality(DOMAIN weights)]

(* distribution_new of a strategy *)
distribution_new(type, server_count) ==
    [made_by |-> type, server_count |-> server_count, length |-> 0, offset |-> 0,
     block_size |-> J_STRIPE_SIZE, start_index |-> 0, index |-> 0,
     weights |-> [i \in Servers(server_count) |-> 0]]

j_distribution_new_common(type, server_count) ==
    [type |-> type, distribution |-> distribution_new(type, server_count)]

(* distribution_set / distribution_set2 of the strategies *)
distribution_set(s, key, value) ==
    CASE key = "block-size" -> [s EXCEPT !.block_size = value]
      [] key = "start-index" /\ s.made_by = J_DISTRIBUTION_ROUND_ROBIN ->
           [s EXCEPT !.start_index = value]
      [] key = "index" /\ s.made_by = J_DISTRIBUTION_SINGLE_SERVER ->
           [s EXCEPT !.index = value]
      [] OTHER -> s

distribution_set2(s, key, value1, value2) ==
    IF key = "weight" /\ s.made_by = J_DISTRIBUTION_WEIGHTED
    THEN [s EXCEPT !.weights[value1] = value2]
    ELSE s

j_distribution_set_block_size(d, block_size) ==
    [d EXCEPT !.distribution =
        distribution_set(@, "block-size", Min(block_size, J_STRIPE_SIZE))]

j_distribution_set(d, key, value) ==
    [d EXCEPT !.distribution = distribution_set(@, key, value)]

j_distribution_set2(d, key, value1, value2) ==
    [d EXCEPT !.distribution = distribution_set2(@, key, value1, value2)]

j_distribution_reset(d, length, offset) ==
    [d EXCEPT !.distribution.length = length, !.distribution.offset = offset]

(* the server of block number n of one round of the weighted strategy *)
WeightedIndex(weights, n) ==
    LET Before(i) == Sum([j \in 0..(i - 1) |-> weights[j]])
    IN  CHOOSE i \in DOMAIN weights : Before(i) <= n /\ n < Before(i) + weights[i]

NoChunk(s) ==
    [ret |-> FALSE, index |-> 0, new_length |-> 0, new_offset |-> 0, block_id |-> 0,
     distribution |-> s]

Advance(s, index, new_length, new_offset, block_id) ==
    [ret |-> TRUE, index |-> index, new_length |-> new_length,
     new_offset |-> new_offset, block_id |-> block_id,
     distribution |-> [s EXCEPT !.length = @ - new_length, !.offset = @ + new_length]]

(* round-robin distribute that hands out whole blocks whatever the offset *)
round_robin_distribute_whole(s) ==
    IF s.length = 0 THEN NoChunk(s)
    ELSE LET block == s.offset \div s.block_size
             round == block \div s.server_count
             displacement == s.offset % s.block_size
         IN  Advance(s, (s.start_index + block) % s.server_count,
                     Min(s.length, s.block_size),
                     round * s.block_size + displacement, block)

round_robin_distribute(s) ==
    IF s.length = 0 THEN NoChunk(s)
    ELSE LET block == s.offset \div s.block_size
             round == block \div s.server_count
             displacement == s.offset % s.block_size
         IN  Advance(s, (s.start_index + block) % s.server_count,
                     Min(s.length, s.block_size - displacement),
                     round * s.block_size + displacement, block)

single_server_distribute(s) ==
    IF s.length = 0 THEN NoChunk(s)
    ELSE Advance(s, s.index, s.length, s.offset, s.offset \div s.block_size)

weighted_distribute(s) ==
    IF s.length = 0 THEN NoChunk(s)
    ELSE LET sum == Sum(s.weights)
             block == s.offset \div s.block_size
             round == block \div sum
             displacement == s.offset % s.block_size
             index == WeightedIndex(s.weights, block % sum)
             block_offset == (block % sum)
                             - Sum([j \in 0..(index - 1) |-> s.weights[j]])
         IN  Advance(s, index, Min(s.length, s.block_size - displacement),
                     (round * s.weights[index] + block_offset) * s.block_size
                        + displacement,
                     block)

distribution_distribute(type, s) ==
    CASE type = J_DISTRIBUTION_ROUND_ROBIN -> round_robin_distribute(s)
      [] type = J_DISTRIBUTION_SINGLE_SERVER -> single_server_distribute(s)
      [] type = J_DISTRIBUTION_WEIGHTED -> weighted_distribute(s)

j_distribution_distribute(d) ==
    LET r == distribution_distribute(d.type, d.distribution)
    IN  [r EXCEPT !.distribution = [d EXCEPT !.distribution = r.distribution]]

(* the document: the type tag and the strategy's own fields *)
distribution_serialize(type, s) ==
    CASE type = J_DISTRIBUTION_ROUND_ROBIN ->
           [BlockSize |-> s.block_size, StartIndex |-> s.start_index]
      [] type = J_DISTRIBUTION_SINGLE_SERVER ->
           [BlockSize |-> s.block_size, Index |-> s.index]
      [] type = J_DISTRIBUTION_WEIGHTED ->
           [BlockSize |-> s.block_size, Weights |-> s.weights]

j_distribution_serialize(d) ==
    [type |-> d.type] @@ distribution_serialize(d.type, d.distribution)

distribution_deserialize(type, s, b) ==
    CASE type = J_DISTRIBUTION_ROUND_ROBIN ->
           [s EXCEPT !.block_size = b.BlockSize, !.start_index = b.StartIndex]
      [] type = J_DISTRIBUTION_SINGLE_SERVER ->
           [s EXCEPT !.block_size = b.BlockSize, !.index = b.Index]
      [] type = J_DISTRIBUTION_WEIGHTED ->
           [s EXCEPT !.block_size = b.BlockSize, !.weights = b.Weights]

(* what a strategy structure of a type can hold *)
Strategies(type, server_count) ==
    {[made_by |-> type, server_count |-> server_count, length |-> 0, offset |-> 0,
      block_size |-> bs, start_index |-> st, index |-> ix, weights |-> w] :
        bs \in {Min(size, J_STRIPE_SIZE) : size \in DistBlockSizes},
        st \in IF type = J_DISTRIBUTION_ROUND_ROBIN THEN Servers(server_count) ELSE {0},
        ix \in IF type = J_DISTRIBUTION_SINGLE_SERVER THEN Servers(server_count) ELSE {0},
        w \in IF type = J_DISTRIBUTION_WEIGHTED
              THEN {f \in [Servers(server_count) -> 0..MaxWeight] : Sum(f) > 0}
              ELSE {[i \in Servers(server_count) |-> 0]}}

(* j_distribution_deserialize sets the type from the document and runs    *)
(* that type's distribution_deserialize on the structure the distribution *)
(* holds.  On a structure another strategy allocated, and for a type that *)
(* is no index of the vtable array, the outcome is not defined: any       *)
(* content of the structure, which is still the one made_by allocated.    *)
j_distribution_deserialize(d, b) ==
    IF d.distribution.made_by = b.type
    THEN {[type |-> b.type,
           distribution |-> distribution_deserialize(b.type, d.distribution, b)]}
    ELSE {[type |-> b.type,
           distribution |-> [s EXCEPT !.made_by = d.distribution.made_by]] :
            s \in Strategies(IF b.type \in JDistributionTypes THEN b.type
                             ELSE d.distribution.made_by,
                             d.distribution.server_count)}

j_distribution_new_from_bson(b, server_count) ==
    j_distribution_deserialize(
        j_distribution_new_common(J_DISTRIBUTION_ROUND_ROBIN, server_count), b)

DistFrame == UNCHANGED <<clientVars, iterVars, bgVars, initVars, srvVars>>

(* a distribution reset to a range, with no chunk handed out yet *)
Started(d, length, offset) ==
    j_distribution_reset(d, length, offset)
    @@ [want_length |-> length, want_offset |-> offset, chunks |-> <<>>,
        finished |-> FALSE]

(* one j_distribution_distribute call on a started distribution *)
Distributed(d) ==
    LET r == j_distribution_distribute(d)
    IN  IF r.ret
        THEN [d EXCEPT !.distribution = r.distribution.distribution,
                       !.chunks = Append(@, [index |-> r.index,
                                             new_length |-> r.new_length,
                                             new_offset |-> r.new_offset,
                                             block_id |-> r.block_id])]
        ELSE [d EXCEPT !.finished = TRUE]

Distribute ==
    /\ ~distribution.finished
    /\ distribution' = Distributed(distribution)
    /\ UNCHANGED restored
    /\ DistFrame

(* j_distribution_new_for_configuration and j_distribution_deserialize *)
Deserialize ==
    /\ restored = NoJDistribution
    /\ \E d \in j_distribution_deserialize(
                   j_distribution_new_common(distribution.type,
                                             distribution.distribution.server_count),
                   j_distribution_serialize(distribution)) :
         restored' = Started(d, distribution.want_length, distribution.want_offset)
    /\ UNCHANGED distribution
    /\ DistFrame

NewFromBson ==
    /\ restored = NoJDistribution
    /\ \E d \in j_distribution_new_from_bson(j_distribution_serialize(distribution),
                                             distribution.distribution.server_count) :
         restored' = Started(d, distribution.want_length, distribution.want_offset)
    /\ UNCHANGED distribution
    /\ DistFrame

DistributeRestored ==
    /\ restored # NoJDistribution
    /\ ~restored.finished
    /\ restored' = Distributed(restored)
    /\ UNCHANGED distribution
    /\ DistFrame

(* the distributions an application can configure *)
Configured(type, server_count) ==
    {j_distribution_set_block_size(d, bs) :
        bs \in DistBlockSizes,
        d \in CASE type = J_DISTRIBUTION_ROUND_ROBIN ->
                     {j_distribution_set(j_distribution_new_common(type, server_count),
                                         "start-index", st) :
                         st \in Servers(server_count)}
                [] type = J_DISTRIBUTION_SINGLE_SERVER ->
                     {j_distribution_set(j_distribution_new_common(type, server_count),
                                         "index", ix) :
                         ix \in Servers(server_count)}
                [] type = J_DISTRIBUTION_WEIGHTED ->
                     {[j_distribution_new_common(type, server_count)
                          EXCEPT !.distribution.weights = w] :
                         w \in {f \in [Servers(server_count) -> 0..MaxWeight] :
                                  Sum(f) > 0}}}

InitDist ==
    /\ NoClient
    /\ NoIterator
    /\ NoDaemon
    /\ NoBackground
    /\ Initialized
    /\ \E type \in JDistributionTypes, server_count \in DistServerCounts :
         \E d \in Configured(type, server_count) :
           \E length \in DistLengths, offset \in DistOffsets :
             distribution = Started(d, length, offset)
    /\ restored = NoJDistribution

NextDist ==
    \/ Distribute
    \/ Deserialize
    \/ NewFromBson
    \/ DistributeRestored

SpecDist == InitDist /\ [][NextDist]_vars


(* the first byte of the object a chunk stands for, from the chunk itself *)
ChunkStart(d, c) ==
    IF d.type = J_DISTRIBUTION_SINGLE_SERVER THEN c.new_offset
    ELSE c.block_id * d.distribution.block_size
         + (c.new_offset % d.distribution.block_size)

ChunkEnd(d, c) == ChunkStart(d, c) + c.new_length

(* the chunks of a finished distribution tile [offset, offset + length) *)
Tiles(d) ==
    LET c == d.chunks
        n == Len(c)
    IN  /\ \A i \in 1..n : c[i].new_length > 0
        /\ \A i \in 1..n : c[i].index \in Servers(d.distribution.server_count)
        /\ n = 0 => d.want_length = 0
        /\ n > 0 => /\ ChunkStart(d, c[1]) = d.want_offset
                    /\ ChunkEnd(d, c[n]) = d.want_offset + d.want_length
        /\ \A i \in 1..(n - 1) : ChunkStart(d, c[i + 1]) = ChunkEnd(d, c[i])
        /\ \A i \in 1..n : \A j \in (i + 1)..n :
              c[i].index = c[j].index
              => \/ c[i].new_offset + c[i].new_length <= c[j].new_offset
                 \/ c[j].new_offset + c[j].new_length <= c[i].new_offset

RoundRobinStripe ==
    /\ distribution.type = J_DISTRIBUTION_ROUND_ROBIN
    /\ distribution.distribution.server_count = 3
    /\ distribution.distribution.block_size = 4 * MiB
    /\ distribution.distribution.start_index = 0
    /\ distribution.want_offset = 2 * MiB
    /\ distribution.want_length = 10 * MiB
    /\ distribution.finished

(* C16: when distribute has returned FALSE, the chunks handed out since    *)
(* the reset are non-empty, contiguous from offset to offset + length and  *)
(* do not overlap on any server; the round-robin stripe of 10 MiB at       *)
(* 2 MiB over 3 servers with 4 MiB blocks is (0, 2 MiB, 2 MiB, 0),         *)
(* (1, 4 MiB, 0, 1), (2, 4 MiB, 0, 2).                                     *)
ChunksCoverRange ==
    distribution.finished
    => /\ Tiles(distribution)
       /\ RoundRobinStripe
          => distribution.chunks =
               << [index |-> 0, new_length |-> 2 * MiB, new_offset |-> 2 * MiB,
                   block_id |-> 0],
                  [index |-> 1, new_length |-> 4 * MiB, new_offset |-> 0,
                   block_id |-> 1],
                  [index |-> 2, new_length |-> 4 * MiB, new_offset |-> 0,
                   block_id |-> 2] >>

ChunksCoverRangeWitness ==
    /\ RoundRobinStripe
    /\ Len(distribution.chunks) = 3

(* C17: a distribution made from the serialized form of another, by        *)
(* j_distribution_deserialize or by j_distribution_new_from_bson, hands    *)
(* out the same chunks for the same range.                                 *)
RestoredYieldsSameStream ==
    (distribution.finished /\ restored # NoJDistribution /\ restored.finished)
    => restored.chunks = distribution.chunks


(***************************************************************************)
(* j_init.  A backend pointer is TRUE when it is not NULL.                 *)
(***************************************************************************)
InitFrame == UNCHANGED <<clientVars, iterVars, bgVars, distVars, srvVars>>

(* j_backend_load_client: TRUE for the client component, with the backend *)
(* the module gave, NULL when the module or its backend_info gave none    *)
j_backend_load_client(component, loads) ==
    [ret |-> component = "client", backend |-> component = "client" /\ loads]

(* j_init going on although the backend is NULL or its init failed *)
BackendFailedNever(load, init) == FALSE

(* common->x_backend == NULL || !j_backend_x_init(common->x_backend, path) *)
BackendFailed(load, init) == load.ret /\ (~load.backend \/ ~init)

(* common->configuration = j_configuration_new() *)
InitConfiguration ==
    /\ library.pc = "configuration"
    /\ common' = [common EXCEPT !.configuration = environment.configuration]
    /\ library' = [library EXCEPT
                     !.pc = IF environment.configuration THEN "object" ELSE "error"]
    /\ UNCHANGED environment
    /\ InitFrame

InitBackend(step, next, load, init) ==
    /\ library.pc = step
    /\ common' = [common EXCEPT ![step \o "_backend"] = load.backend]
    /\ library' = IF BackendFailed(load, init)
                  THEN [library EXCEPT !.pc = "error", !.criticals = @ + 1]
                  ELSE [library EXCEPT !.pc = next]
    /\ UNCHANGED environment
    /\ InitFrame

InitObjectBackend ==
    InitBackend("object", "kv",
                j_backend_load_client(environment.object_component,
                                      environment.object_loads),
                environment.object_init)

InitKvBackend ==
    InitBackend("kv", "publish",
                j_backend_load_client(environment.kv_component, environment.kv_loads),
                environment.kv_init)

(* the subsystems are initialised and g_atomic_pointer_set(&j_common, common) *)
InitPublish ==
    /\ library.pc = "publish"
    /\ library' = [library EXCEPT !.pc = "done", !.j_common = TRUE]
    /\ UNCHANGED <<environment, common>>
    /\ InitFrame

(* error: the configuration and common are released, g_error aborts *)
InitError ==
    /\ library.pc = "error"
    /\ common' = NewJCommon
    /\ library' = [library EXCEPT !.pc = "done", !.process = "aborted"]
    /\ UNCHANGED environment
    /\ InitFrame

(* j_init entered in a process where the library is not initialized *)
InitInit ==
    /\ NoClient
    /\ NoIterator
    /\ NoDaemon
    /\ NoBackground
    /\ NoDistribution
    /\ environment \in Environments
    /\ common = NewJCommon
    /\ library = [pc |-> "configuration", j_common |-> FALSE, process |-> "running",
                  criticals |-> 0]

NextInit ==
    \/ InitConfiguration
    \/ InitObjectBackend
    \/ InitKvBackend
    \/ InitPublish
    \/ InitError

SpecInit == InitInit /\ [][NextInit]_vars

(* what the claim calls a failed initialisation *)
CannotInitialize ==
    \/ ~environment.configuration
    \/ /\ environment.object_component = "client"
       /\ ~environment.object_loads \/ ~environment.object_init
    \/ /\ environment.kv_component = "client"
       /\ ~environment.kv_loads \/ ~environment.kv_init

(* C18: j_common is set only when the configuration was loaded and no      *)
(* client-side backend failed to load or to initialize, and when j_init    *)
(* has ended after such a failure the process has been aborted, with a     *)
(* critical message when a backend was the cause.                          *)
FailedInitAborts ==
    /\ library.j_common => (~CannotInitialize /\ library.process = "running")
    /\ (library.pc = "done" /\ CannotInitialize)
       => /\ library.process = "aborted"
          /\ ~library.j_common
          /\ environment.configuration => library.criticals = 1
    /\ (library.pc = "done" /\ ~CannotInitialize) => library.j_common

(* j_init ended by abort because the KV backend's init failed *)
FailedInitAbortsWitness ==
    /\ library.pc = "done"
    /\ library.process = "aborted"
    /\ environment.configuration
    /\ ~BackendFailed(j_backend_load_client(environment.object_component,
                                            environment.object_loads),
                      environment.object_init)
    /\ environment.kv_component = "client"
    /\ environment.kv_loads
    /\ ~environment.kv_init


(* the client against a server that may split every reply with results *)
NextSplit ==
    \/ \E t \in Threads, h \in DOMAIN handles, value \in Values : j_kv_put(t, h, value)
    \/ \E t \in Threads, h \in DOMAIN handles : j_kv_delete(t, h)
    \/ \E t \in Threads, h \in DOMAIN handles : j_kv_get(t, h)
    \/ \E t \in Threads, h \in DOMAIN handles : j_object_create(t, h)
    \/ \E t \in Threads, h \in DOMAIN handles : j_object_delete(t, h)
    \/ \E t \in Threads, h \in DOMAIN handles : j_object_status(t, h)
    \/ \E t \in Threads, h \in DOMAIN handles, length \in Lengths, offset \in Offsets,
          counter \in Counters : j_object_read(t, h, length, offset, counter)
    \/ \E t \in Threads, h \in DOMAIN handles, length \in Lengths, offset \in Offsets,
          counter \in Counters : j_object_write(t, h, length, offset, counter)
    \/ \E t \in Threads : j_batch_execute(t)
    \/ \E t \in Threads : ExecLocalRun(t)
    \/ \E t \in Threads : ExecSend(t)
    \/ \E t \in Threads : ExecReceive(t)
    \/ \E t \in Threads : ExecPush(t)
    \/ \E t \in Threads : BatchDone(t)
    \/ \E c \in DOMAIN conns : ServerStepSplit(c)

SpecSplit == InitFail /\ [][NextSplit]_vars

(* C20: a remote run of read, write, status or get that has read a reply   *)
(* has one result for each of its operations when it returns, and no       *)
(* connection lies idle in the pool with a reply frame unread.             *)
RepliesAggregated ==
    /\ \A t \in Threads : \A e \in Entries(t) :
         ( /\ ~e.local
           /\ e.received >= 1
           /\ e.fn \in {"j_kv_get_exec", "j_object_read_exec",
                        "j_object_status_exec", "j_object_write_exec"} )
         => Len(e.out) = Len(e.ops)
    /\ \A c \in DOMAIN conns : IdleSlots(c) # {} => conns[c].outq = <<>>


(* C19: no j_kv_new_for_index or j_object_new_for_index call with a server *)
(* index outside the configured range has returned to its caller.          *)
PreconditionViolationTerminates ==
    last_new.fn = "new_for_index"
    => IndexInRange(last_new.index, j_configuration_get_server_count(last_new.kind))



(***************************************************************************)
(* One application thread that owns both handles: they name two keys (or   *)
(* two objects) of the same namespace on the same server.  In SpecDrop the *)
(* thread may also drop its own reference on a handle between two calls.   *)
(***************************************************************************)
(* the application thread: the first one *)
Caller == CHOOSE t \in Threads : \A u \in Threads : t <= u

InitOwningBoth(total) ==
    /\ kv_server_count = Cardinality(Indexes)
    /\ object_server_count = Cardinality(Indexes)
    /\ family \in {"kv", "object"}
    /\ safety \in Safeties
    /\ kv_backend \in (IF family = "kv" THEN BOOLEAN ELSE {FALSE})
    /\ object_backend \in (IF family = "object" THEN BOOLEAN ELSE {FALSE})
    /\ replies_unflagged = TRUE
    /\ handles = [h \in 1..Len(PipelineNames) |->
                    NewHandle(family,
                              HashIndex(PipelineNames[h], Cardinality(Indexes)),
                              <<110>>, PipelineNames[h])]
    /\ held = [t \in Threads |->
                 [h \in 1..Len(PipelineNames) |-> IF t = Caller THEN 1 ELSE 0]]
    /\ freed = [h \in 1..Len(PipelineNames) |-> 0]
    /\ last_new = [fn |-> "new", kind |-> family,
                   index |-> HashIndex(PipelineNames[Len(PipelineNames)],
                                       Cardinality(Indexes)),
                   ret |-> Len(PipelineNames)]
    /\ ops_left = Budget(total)
    /\ NoOperations

InitBatch == InitOwningBoth(MaxOpsTotal)

InitDrop == InitOwningBoth(MaxOpsFail)

(* j_kv_unref / j_object_unref by the application on a reference of its own *)
Drop(t, h) ==
    /\ OwnedByCaller(t, h) > 0
    /\ pc[t] = "open"
    /\ Unref(t, h, family)

NextBatch ==
    \/ \E t \in Threads, h \in DOMAIN handles, value \in Values : j_kv_put(t, h, value)
    \/ \E t \in Threads, h \in DOMAIN handles : j_kv_delete(t, h)
    \/ \E t \in Threads, h \in DOMAIN handles : j_kv_get(t, h)
    \/ \E t \in Threads, h \in DOMAIN handles : j_kv_get_callback(t, h)
    \/ \E t \in Threads, h \in DOMAIN handles : j_object_create(t, h)
    \/ \E t \in Threads, h \in DOMAIN handles : j_object_delete(t, h)
    \/ \E t \in Threads, h \in DOMAIN handles : j_object_status(t, h)
    \/ \E t \in Threads, h \in DOMAIN handles, length \in Lengths, offset \in Offsets,
          counter \in Counters : j_object_read(t, h, length, offset, counter)
    \/ \E t \in Threads, h \in DOMAIN handles, length \in Lengths, offset \in Offsets,
          counter \in Counters : j_object_write(t, h, length, offset, counter)
    \/ \E t \in Threads : j_batch_execute(t)
    \/ \E t \in Threads : ExecLocalRun(t)
    \/ \E t \in Threads : ExecSend(t)
    \/ \E t \in Threads : ExecReceive(t)
    \/ \E t \in Threads : ExecPush(t)
    \/ \E t \in Threads : BatchDone(t)
    \/ \E c \in DOMAIN conns : ServerStep(c)

SpecBatch == InitBatch /\ [][NextBatch]_vars

NextDrop ==
    \/ NextBatch
    \/ \E t \in Threads, h \in DOMAIN handles : Drop(t, h)

SpecDrop == InitDrop /\ [][NextDrop]_vars



(* the locality of a run: server index and namespace of its handle *)
Locality(e) == <<handles[e.h].index, handles[e.h].namespace>>

(* C21: two runs that follow each other in one batch differ in the exec    *)
(* function or in the locality (server index, namespace): consecutive      *)
(* operations that share both are dispatched by a single exec call, also   *)
(* when they were enqueued through different handles.                      *)
RunsSpanHandles ==
    \A t \in Threads : \A i \in 1..(Len(log[t]) - 1) :
        ~log[t][i + 1].first
        => \/ log[t][i + 1].fn # log[t][i].fn
           \/ Locality(log[t][i + 1]) # Locality(log[t][i])



(* the object a handle identifies *)
OwnPath(op) == ObjectPath(NamespaceOf(op), NameOf(op))

(* the object the i-th operation of a completed run was executed against:  *)
(* the handle its backend call was made on, or the object named in the     *)
(* header of the request                                                   *)
Target(e, i) ==
    IF e.local THEN e.calls[i + 1].on
    ELSE ObjectPath(Message(e.fn, e.ops).namespace, Message(e.fn, e.ops).name)

(* C22: every read or write of a completed run was executed against the    *)
(* object its own handle names (or, in the local path, against no object   *)
(* when the open failed), and the run opened that object.                  *)
OperationsHitOwnObject ==
    \A t \in Threads : \A e \in Entries(t) :
        e.fn \in {"j_object_read_exec", "j_object_write_exec"}
        => \A i \in 1..Len(e.ops) :
              /\ Target(e, i) \in {OwnPath(e.ops[i]), Uninitialized}
              /\ e.local => e.calls[1].on = OwnPath(e.ops[i])

(* a batch wrote to two objects one after the other; the first did not    *)
(* exist, the second did and is the one that grew                          *)
OperationsHitOwnObjectWitness ==
    \E i \in 1..(Len(log[Caller]) - 1) :
        LET e == log[Caller][i]
            f == log[Caller][i + 1]
        IN  /\ e.fn = "j_object_write_exec"
            /\ f.fn = "j_object_write_exec"
            /\ ~f.first
            /\ e.h # f.h
            /\ f.local
            /\ Target(e, 1) = Uninitialized
            /\ Target(f, 1) = OwnPath(f.ops[1])
            /\ OwnPath(f.ops[1]) \in DOMAIN object_store[InProcess]
            /\ object_store[InProcess][OwnPath(f.ops[1])] > 0
            /\ OwnPath(e.ops[1]) \notin DOMAIN object_store[InProcess]



(* backend calls a local run makes: per operation, and around the loop *)
CallsPerOperation(fn) ==
    CASE fn \in {"j_object_create_exec", "j_object_delete_exec"} -> 2
      [] fn = "j_object_status_exec" -> 3
      [] OTHER -> 1

CallsAroundLoop(fn) ==
    IF fn \in {"j_kv_put_exec", "j_kv_delete_exec", "j_object_read_exec",
               "j_object_write_exec"}
    THEN 2 ELSE 0

(* the operations of the runs log[from..to], in order *)
RECURSIVE OperationsOf(_, _, _)
OperationsOf(l, from, to) ==
    IF from > to THEN <<>>
    ELSE l[from].ops \o OperationsOf(l, from + 1, to)

(* the entry that starts the batch entry j belongs to *)
BatchStart(l, j) ==
    CHOOSE i \in 1..j : l[i].first /\ \A k \in (i + 1)..j : ~l[k].first

(* the stores after the operations, applied one by one with no rollback *)
RECURSIVE Applied(_, _)
Applied(stores, ops) ==
    IF ops = <<>> THEN stores
    ELSE LET op == Head(ops)
             fn == op.exec_func
             key == NsKey(NamespaceOf(op), NameOf(op))
             path == OwnPath(op)
             exists == path \in DOMAIN stores.object
             next ==
               CASE fn = "j_kv_put_exec" ->
                      [stores EXCEPT !.kv = Put(@, key, op.value)]
                 [] fn = "j_kv_delete_exec" ->
                      [stores EXCEPT !.kv = Without(@, key)]
                 [] fn = "j_object_create_exec" /\ ~exists ->
                      [stores EXCEPT !.object = Put(@, path, 0)]
                 [] fn = "j_object_delete_exec" /\ exists ->
                      [stores EXCEPT !.object = Without(@, path)]
                 [] fn = "j_object_write_exec" /\ exists ->
                      [stores EXCEPT !.object =
                          Put(@, path, Max(@[path], op.offset + op.length))]
                 [] OTHER -> stores
         IN  Applied(next, Tail(ops))

(* where the runs of the caller take effect *)
StoreOfCaller == IF kv_backend \/ object_backend THEN InProcess ELSE 0

LocalProgress ==
    [done |-> 0, out |-> <<>>, received |-> 0, ioerr |-> FALSE, calls |-> <<>>]

(* j_kv_get_exec is entered with kv_backend != NULL *)
ExecLocalGetBegin(t) ==
    /\ pc[t] = "dispatch"
    /\ todo[t] # <<>>
    /\ todo[t][1].exec_func = "j_kv_get_exec"
    /\ BackendPresent("j_kv_get_exec")
    /\ run' = [run EXCEPT ![t] = FirstRun(todo[t])]
    /\ todo' = [todo EXCEPT ![t] = AfterFirstRun(@)]
    /\ ret' = [ret EXCEPT ![t] = InitialRet("j_kv_get_exec")]
    /\ rx' = [rx EXCEPT ![t] = LocalProgress]
    /\ pc' = [pc EXCEPT ![t] = "get"]
    /\ UNCHANGED <<refVars, cfgVars, batch, conn, result, log, ops_left, netVars,
                   storeVars, countVars>>

(* one pass of while (j_list_iterator_next(it)) *)
ExecLocalGet(t) ==
    /\ pc[t] = "get"
    /\ rx[t].done < Len(run[t])
    /\ LET op == run[t][rx[t].done + 1]
           step == KvGetLoop([Start EXCEPT !.ok = ret[t], !.out = rx[t].out,
                                           !.calls = rx[t].calls],
                             <<op>>)
       IN  /\ ret' = [ret EXCEPT ![t] = step.ok]
           /\ rx' = [rx EXCEPT ![t].done = @ + 1, ![t].out = step.out,
                               ![t].calls = step.calls]
    /\ UNCHANGED <<refVars, cfgVars, pc, batch, todo, run, conn, result, log, ops_left,
                   netVars, storeVars, countVars>>

(* return ret *)
ExecLocalGetEnd(t) ==
    /\ pc[t] = "get"
    /\ rx[t].done = Len(run[t])
    /\ result' = [result EXCEPT ![t] = ret[t] /\ @]
    /\ log' = [log EXCEPT ![t] = Append(@,
                 Summary("j_kv_get_exec", run[t], ret[t], ret[t], rx[t].out, TRUE, 0,
                         IndexOf(run[t][1]), {}, 0, FALSE,
                         Len(run[t]) + Len(todo[t]) = Len(batch[t]),
                         todo[t] = <<>>, rx[t].calls))]
    /\ pc' = [pc EXCEPT ![t] = "dispatch"]
    /\ run' = [run EXCEPT ![t] = <<>>]
    /\ rx' = [rx EXCEPT ![t] = NoProgress]
    /\ UNCHANGED <<refVars, cfgVars, batch, todo, conn, ret, ops_left, netVars,
                   storeVars, countVars>>

(* a put or delete run on the in-process backend: one leveldb_write *)
ExecLocalWrite(t) ==
    /\ todo[t] # <<>>
    /\ todo[t][1].exec_func # "j_kv_get_exec"
    /\ ExecLocalRun(t)

(* both threads hold a reference on each of the two KV handles *)
InitGet ==
    /\ kv_server_count = Cardinality(Indexes)
    /\ object_server_count = Cardinality(Indexes)
    /\ family = "kv"
    /\ safety \in Safeties
    /\ kv_backend = TRUE
    /\ object_backend = FALSE
    /\ replies_unflagged = TRUE
    /\ handles = [h \in 1..Len(PipelineNames) |->
                    [NewHandle(family,
                               HashIndex(PipelineNames[h], Cardinality(Indexes)),
                               <<110>>, PipelineNames[h])
                     EXCEPT !.ref_count = Cardinality(Threads)]]
    /\ held = [t \in Threads |-> [h \in 1..Len(PipelineNames) |-> 1]]
    /\ freed = [h \in 1..Len(PipelineNames) |-> 0]
    /\ last_new = [fn |-> "new", kind |-> family,
                   index |-> HashIndex(PipelineNames[Len(PipelineNames)],
                                       Cardinality(Indexes)),
                   ret |-> Len(PipelineNames)]
    /\ ops_left = Budget(MaxOpsTotal)
    /\ NoOperations

NextGet ==
    \/ \E t \in Threads, h \in DOMAIN handles, value \in Values : j_kv_put(t, h, value)
    \/ \E t \in Threads, h \in DOMAIN handles : j_kv_delete(t, h)
    \/ \E t \in Threads, h \in DOMAIN handles : j_kv_get(t, h)
    \/ \E t \in Threads, h \in DOMAIN handles : j_kv_get_callback(t, h)
    \/ \E t \in Threads : j_batch_execute(t)
    \/ \E t \in Threads : ExecLocalWrite(t)
    \/ \E t \in Threads : ExecLocalGetBegin(t)
    \/ \E t \in Threads : ExecLocalGet(t)
    \/ \E t \in Threads : ExecLocalGetEnd(t)
    \/ \E t \in Threads : BatchDone(t)

SpecGet == InitGet /\ [][NextGet]_vars

(* C24: a get run of the in-process backend delivers what a remote run     *)
(* delivers for the same data: the value of every operation whose key the *)
(* backend found, whatever the gets before it found, and nothing for an    *)
(* operation whose key it did not find.                                    *)
GetsDeliverWhatExists ==
    \A t \in Threads : \A e \in Entries(t) :
        (e.fn = "j_kv_get_exec" /\ e.local)
        => \A i \in 1..Len(e.ops) : e.calls[i].ok <=> e.out[i] # NULL



(***************************************************************************)
(* Progress.  A thread inside j_batch_execute keeps running, and a server  *)
(* worker handles the requests that reach it.  Nothing obliges the         *)
(* application to enqueue operations or to execute a batch.                *)
(***************************************************************************)
ExecStep(t) ==
    \/ ExecLocalRun(t)
    \/ ExecSend(t)
    \/ ExecReceive(t)
    \/ ExecPush(t)
    \/ BatchDone(t)

FairExec ==
    /\ \A t \in Threads : WF_vars(ExecStep(t))
    /\ WF_vars(\E c \in DOMAIN conns : ServerStep(c))

SpecLive == InitFail /\ [][Next]_vars /\ FairExec

(* C25: a run that has popped a connection and sent its request            *)
(* eventually pushes the connection and returns to j_batch_execute.        *)
LeasedConnectionReturns ==
    \A t \in Threads : (pc[t] \in {"recv", "push"}) ~> (pc[t] = "dispatch")



(***************************************************************************)
(* The object client on the in-process backend, with reads and writes of   *)
(* different lengths, so that the operations of a run can be told apart.   *)
(***************************************************************************)
MaxLengthLocal == 2    \* read and write lengths are 1..MaxLengthLocal

LocalLengths == 1..MaxLengthLocal

InitOpen ==
    /\ InitBatch
    /\ family = "object"
    /\ object_backend

NextOpen ==
    \/ \E t \in Threads, h \in DOMAIN handles : j_object_create(t, h)
    \/ \E t \in Threads, h \in DOMAIN handles : j_object_delete(t, h)
    \/ \E t \in Threads, h \in DOMAIN handles : j_object_status(t, h)
    \/ \E t \in Threads, h \in DOMAIN handles, length \in LocalLengths,
          offset \in Offsets, counter \in Counters :
             j_object_read(t, h, length, offset, counter)
    \/ \E t \in Threads, h \in DOMAIN handles, length \in LocalLengths,
          offset \in Offsets, counter \in Counters :
             j_object_write(t, h, length, offset, counter)
    \/ \E t \in Threads : j_batch_execute(t)
    \/ \E t \in Threads : ExecLocalRun(t)
    \/ \E t \in Threads : BatchDone(t)

SpecOpen == InitOpen /\ [][NextOpen]_vars

(* the local read and write runs completed so far *)
LocalAccesses ==
    {e \in UNION {Entries(t) : t \in Threads} :
        e.local /\ e.fn \in {"j_object_read_exec", "j_object_write_exec"}}

BackendAccess(fn) ==
    IF fn = "j_object_read_exec" THEN "j_backend_object_read"
    ELSE "j_backend_object_write"

(* how often the run called the backend function *)
CallCount(e, fn) == Cardinality({i \in 1..Len(e.calls) : e.calls[i].call = fn})

(* C26: a local read or write run calls open once, first, on the object of *)
(* the run, then reads or writes once per operation in insertion order,    *)
(* then calls close once, last; when the open succeeded every access and   *)
(* the close are made on the handle it returned, so no handle stays open.  *)
OpenedOnceClosedOnce ==
    \A e \in LocalAccesses :
        LET n == Len(e.ops)
        IN  /\ Len(e.calls) = n + 2
            /\ CallCount(e, "j_backend_object_open") = 1
            /\ CallCount(e, "j_backend_object_close") = 1
            /\ e.calls[1].call = "j_backend_object_open"
            /\ e.calls[1].on = OwnPath(e.ops[1])
            /\ e.calls[n + 2].call = "j_backend_object_close"
            /\ \A i \in 1..n :
                 /\ e.calls[i + 1].call = BackendAccess(e.fn)
                 /\ e.calls[i + 1].args = <<e.ops[i].length, e.ops[i].offset>>
            /\ e.calls[1].ok
               => \A i \in 2..(n + 2) : e.calls[i].on = e.calls[1].on /\ e.calls[i].ok

(* a run of two reads of different lengths on an object that exists *)
OpenedOnceClosedOnceWitness ==
    \E e \in LocalAccesses :
        /\ e.fn = "j_object_read_exec"
        /\ Len(e.ops) = 2
        /\ e.ops[1].length > e.ops[2].length
        /\ e.calls[1].ok
        /\ e.calls[4].on = OwnPath(e.ops[1])



(* C27: a local read or write run whose open failed makes no backend call  *)
(* after the open and returns FALSE.                                       *)
FailedOpenStopsRun ==
    \A e \in LocalAccesses :
        ~e.calls[1].ok => (Len(e.calls) = 1 /\ ~e.ret)



(* every batch has ended and every request that was sent has been served *)
Quiescent ==
    /\ \A t \in Threads : pc[t] = "open"
    /\ \A c \in DOMAIN conns : conns[c].inq = <<>>

(* the puts and deletes among the operations *)
Mutations(ops) ==
    SelectSeq(ops, LAMBDA op : op.exec_func \in {"j_kv_put_exec", "j_kv_delete_exec"})

(* the store the runs of a thread take effect in *)
StoreOf(e) == IF e.local THEN InProcess ELSE e.index

(* C28: the operations of a batch take effect in insertion order, across   *)
(* its runs: once a thread's only batch so far has been executed and       *)
(* everything sent has been served, a key the batch put or deleted is in   *)
(* the state its last put or delete of the batch left it in (no other      *)
(* thread works on the key).                                               *)
BatchOrderKept ==
    \A t \in Threads :
        ( /\ Quiescent
          /\ log[t] # <<>>
          /\ \A k \in 2..Len(log[t]) : ~log[t][k].first )
        => LET done == Mutations(OperationsOf(log[t], 1, Len(log[t])))
               op == done[Len(done)]
               key == NsKey(NamespaceOf(op), NameOf(op))
               db == kv_store[StoreOf(log[t][1])]
           IN  done # <<>>
               => IF op.exec_func = "j_kv_put_exec"
                  THEN key \in DOMAIN db /\ db[key] = op.value
                  ELSE key \notin DOMAIN db



(* references on h that belong to pending operations of any thread *)
RECURSIVE BorrowedBy(_, _)
BorrowedBy(S, h) ==
    IF S = {} THEN 0
    ELSE LET t == CHOOSE u \in S : TRUE IN Borrowed(t, h) + BorrowedBy(S \ {t}, h)

(* a handle is alive while a pending operation refers to it, and its count *)
(* covers the pending operations and the references of the callers         *)
PendingKeepsAlive ==
    \A h \in DOMAIN handles :
        /\ handles[h].ref_count = Owners(h)
        /\ \A t \in Threads : OwnedByCaller(t, h) >= 0
        /\ handles[h].ref_count >= BorrowedBy(Threads, h)
        /\ BorrowedBy(Threads, h) > 0 => handles[h].live /\ freed[h] = 0
        /\ freed[h] <= 1
        /\ handles[h].live <=> handles[h].ref_count > 0

(* enqueueing adds one reference for the operation and leaves the caller's *)
EnqueueTakesRef ==
    \A t \in Threads : \A h \in DOMAIN handles :
        Len(batch'[t]) = Len(batch[t]) + 1
        => /\ OwnedByCaller(t, h)' = OwnedByCaller(t, h)
           /\ handles'[h].ref_count = handles[h].ref_count + Borrowed(t, h)' - Borrowed(t, h)

(* freeing the operations leaves exactly the references of the callers *)
FreeLeavesCallers ==
    \A t \in Threads : \A h \in DOMAIN handles :
        (batch[t] # <<>> /\ batch'[t] = <<>>)
        => /\ held'[t][h] = OwnedByCaller(t, h)
           /\ handles'[h].ref_count = handles[h].ref_count - Borrowed(t, h)
           /\ freed'[h] = freed[h] + (IF handles'[h].ref_count = 0 /\ Borrowed(t, h) > 0
                                      THEN 1 ELSE 0)

(* C29: each enqueued operation holds its own reference on its handle from *)
(* enqueue until it is freed: a handle is never freed while a pending      *)
(* operation refers to it, also when the caller dropped its own reference  *)
(* right after enqueueing, and after the operations of a batch have been   *)
(* freed the count is the number of references the callers still hold.     *)
OperationsOwnReferences ==
    /\ []PendingKeepsAlive
    /\ [][EnqueueTakesRef /\ FreeLeavesCallers]_vars

(* the caller dropped its reference while its operation was pending, the   *)
(* runs of the batch have been executed and the handle is still alive      *)
OperationsOwnReferencesWitness ==
    \E h \in DOMAIN handles :
        /\ pc[Caller] = "dispatch"
        /\ todo[Caller] = <<>>
        /\ \E i \in 1..Len(log[Caller]) : log[Caller][i].h = h
        /\ Borrowed(Caller, h) = 1
        /\ OwnedByCaller(Caller, h) = 0
        /\ handles[h].live
        /\ handles[h].ref_count = 1



(* threads blocked in g_cond_wait on the operation's condition *)
BlockedWaiters == {t \in Threads : waiter[t].pc = "blocked"}

(* C30: when several threads wait on the same background operation, every  *)
(* one of them is released once the operation has completed: completion    *)
(* leads to a state in which no thread is blocked in the wait, and all     *)
(* threads that had called wait have returned.                             *)
CompletionReleasesAllWaiters ==
    background_operation.completed
        ~> /\ BlockedWaiters = {}
           /\ \A t \in Threads : waiter[t].pc \in {"idle", "returned"}



(***************************************************************************)
(* The life of a background operation.  A thread that holds no reference   *)
(* is at "none"; the creator starts with its reference, may hand further   *)
(* references to other threads, and every holder may wait and then gives   *)
(* its reference back.                                                     *)
(***************************************************************************)
Holders == {t \in Threads : waiter[t].pc # "none"}

(* g_atomic_int_inc(&ref_count) by a holder t, for the thread u *)
j_background_operation_ref(t, u) ==
    /\ waiter[t].pc \in {"idle", "returned"}
    /\ waiter[u].pc = "none"
    /\ background_operation' = [background_operation EXCEPT !.ref_count = RefCountAfterInc(@)]
    /\ waiter' = [waiter EXCEPT ![u].pc = "idle"]
    /\ UNCHANGED worker
    /\ BgFrame

(* g_atomic_int_dec_and_test(&ref_count) by a holder that is not inside    *)
(* wait; at zero the condition, the mutex and the structure are freed      *)
j_background_operation_unref(t) ==
    /\ waiter[t].pc \in {"idle", "returned"}
    /\ background_operation' = [background_operation EXCEPT !.ref_count = RefCountAfterDec(@)]
    /\ waiter' = [waiter EXCEPT ![t].pc = "none"]
    /\ UNCHANGED worker
    /\ BgFrame

InitLife ==
    /\ NoClient
    /\ NoIterator
    /\ NoDaemon
    /\ NoDistribution
    /\ Initialized
    /\ \E r \in FuncResults : background_operation = NewBackgroundOperation(r)
    /\ worker = "func"
    /\ waiter = [t \in Threads |->
                   [pc |-> IF t = Caller THEN "idle" ELSE "none", ret |-> NULL]]

NextLife ==
    \/ ThreadStep
    \/ \E t \in Threads : WaitCall(t)
    \/ \E t \in Threads : WaitStep(t)
    \/ \E t \in Threads : SpuriousWakeup(t)
    \/ \E t, u \in Threads : j_background_operation_ref(t, u)
    \/ \E t \in Threads : j_background_operation_unref(t)

SpecLife == InitLife /\ [][NextLife]_vars

(* the structure has been freed *)
BackgroundFreed == background_operation.ref_count <= 0

(* the count is the worker's reference plus the holders' references, and   *)
(* the structure is freed only after the worker has completed, signalled   *)
(* and released its reference and every holder has released its own        *)
FreedAfterAllReleased ==
    /\ background_operation.ref_count
         = (IF worker = "done" THEN 0 ELSE 1) + Cardinality(Holders)
    /\ BackgroundFreed
         => /\ background_operation.ref_count = 0
            /\ background_operation.completed
            /\ worker = "done"
            /\ Holders = {}
            /\ background_operation.mutex = NULL
            /\ background_operation.cond = {}

(* nothing reads or writes the structure once it is freed *)
FreedIsFinal ==
    BackgroundFreed => UNCHANGED <<background_operation, worker, waiter>>

(* C31: a background operation starts with one reference for its creator   *)
(* and one for the worker; under every interleaving of the worker          *)
(* finishing and the holders waiting and unreferencing it is freed once,   *)
(* only after the worker has signalled completion and released its         *)
(* reference and the creator has released its own, and no side accesses    *)
(* it afterwards.                                                          *)
BackgroundFreedOnce ==
    /\ []FreedAfterAllReleased
    /\ [][FreedIsFinal]_vars

(* the creator waited, got the result and released its reference, the      *)
(* worker released its own: the structure has been freed                   *)
BackgroundFreedOnceWitness ==
    /\ BackgroundFreed
    /\ waiter[Caller].pc = "none"
    /\ waiter[Caller].ret = background_operation.func_result
    /\ worker = "done"



(***************************************************************************)
(* The server daemon julead.  main loads the backend, starts a threaded    *)
(* socket service and runs the main loop; every accepted connection is     *)
(* served by jd_on_run in a thread of the service.  A signal quits the     *)
(* main loop; main then stops the service, drops the listener, finalizes   *)
(* the backend and returns.                                                *)
(***************************************************************************)
MaxClients == 2        \* connections the daemon may accept
MaxFrames == 2             \* frames the clients send altogether

Clients == 1..MaxClients

(* buf = g_new(gchar, 512 * 1024) *)
BufferSize == 512 * 1024

RequestLengths == {1, BufferSize, BufferSize + 1}

(* sizes of the item the requests name *)
ItemSizes == {1, BufferSize + 1}

OpCodes == {"J_MESSAGE_OP_NONE", "J_MESSAGE_OP_READ", "J_MESSAGE_OP_WRITE", "unknown"}

(* what a client may put on the wire: well-formed frames with an opcode,   *)
(* a length and a flag asking for a reply, and frames j_message_read       *)
(* cannot make a message of                                                *)
WireFrame(op, length, reply, wellformed) ==
    [op |-> op, length |-> length, reply |-> reply, wellformed |-> wellformed]

WireFrames ==
    {WireFrame(op, 0, reply, TRUE) : op \in {"J_MESSAGE_OP_NONE", "unknown"}, reply \in BOOLEAN}
    \cup {WireFrame("J_MESSAGE_OP_READ", length, FALSE, TRUE) : length \in RequestLengths}
    \cup {WireFrame("J_MESSAGE_OP_WRITE", length, reply, TRUE) :
            length \in RequestLengths, reply \in BOOLEAN}
    \cup {WireFrame("J_MESSAGE_OP_NONE", 0, FALSE, FALSE)}

NoMessage == WireFrame("none", 0, FALSE, FALSE)

(* a connection nobody has made yet *)
NoConnection ==
    [state |-> "none", peer |-> "open", input |-> <<>>, output |-> <<>>,
     pc |-> "read", message |-> NoMessage, frames |-> <<>>]

(* main has reached g_main_loop_run: the backend is initialized, the       *)
(* service is started and jd_on_run is connected to its run signal         *)
Listening(size) ==
    [main |-> "loop", accepting |-> TRUE, listener |-> "open", backend |-> "ready",
     size |-> size, frames_left |-> MaxFrames,
     connections |-> [c \in Clients |-> NoConnection]]

DaemonFrame == UNCHANGED <<clientVars, iterVars, bgVars, distVars, initVars, lookup>>

(* the process exists: main has not returned *)
Running == julead.main # "exit"

(* the service accepts a connection and hands it to a thread running jd_on_run *)
Accept(c) ==
    /\ Running
    /\ julead.accepting
    /\ julead.connections[c].state = "none"
    /\ julead' = [julead EXCEPT !.connections[c].state = "open"]
    /\ DaemonFrame

(* a client writes a frame to its connection *)
ClientSend(c, frame) ==
    /\ julead.connections[c].state = "open"
    /\ julead.connections[c].peer = "open"
    /\ julead.frames_left > 0
    /\ julead' = [julead EXCEPT !.connections[c].input = Append(@, frame),
                                !.frames_left = @ - 1]
    /\ DaemonFrame

(* a client closes its end: the server's input stream ends after the       *)
(* frames already sent                                                     *)
ClientClose(c) ==
    /\ julead.connections[c].state = "open"
    /\ julead.connections[c].peer = "open"
    /\ julead' = [julead EXCEPT !.connections[c].peer = "closed"]
    /\ DaemonFrame

(* while (j_message_read(message, input)): the next frame becomes the      *)
(* message; at the end of the stream or on a frame that is no message the  *)
(* loop ends, jd_on_run returns and the service closes the connection      *)
j_message_read(c) ==
    LET connection == julead.connections[c] IN
    /\ Running
    /\ connection.state = "open"
    /\ connection.pc = "read"
    /\ IF connection.input = <<>>
       THEN /\ connection.peer = "closed"
            /\ julead' = [julead EXCEPT !.connections[c].state = "closed"]
       ELSE IF Head(connection.input).wellformed
       THEN julead' = [julead EXCEPT !.connections[c].input = Tail(@),
                                     !.connections[c].message = Head(connection.input),
                                     !.connections[c].pc = "switch"]
       ELSE julead' = [julead EXCEPT !.connections[c].input = Tail(@),
                                     !.connections[c].state = "closed",
                                     !.connections[c].frames =
                                         Append(@, [op |-> "malformed", length |-> 0,
                                                    reply |-> FALSE, moved |-> 0,
                                                    calls |-> <<>>, backend |-> julead.backend,
                                                    replies |-> 0])]
    /\ DaemonFrame

(* bytes jd_backend_read puts into buf: what the item holds, up to length *)
BytesRead(length, offset, size) ==
    IF offset >= size THEN 0 ELSE Min(length, size - offset)

(* the backend calls of a case of the switch and the bytes moved through buf *)
Switch(message, size) ==
    CASE message.op = "J_MESSAGE_OP_READ" ->
           [calls |-> <<"jd_backend_open", "jd_backend_read", "jd_backend_close">>,
            moved |-> BytesRead(message.length, 0, size)]
      [] message.op = "J_MESSAGE_OP_WRITE" ->
           [calls |-> <<"jd_backend_open", "jd_backend_write", "jd_backend_close">>,
            moved |-> message.length]
      [] OTHER -> [calls |-> <<>>, moved |-> 0]

(* switch (j_message_op(message)): one case is executed, nothing is        *)
(* written to the output stream, and the loop goes on with the next frame  *)
jd_on_run(c) ==
    LET connection == julead.connections[c]
        message == connection.message IN
    /\ Running
    /\ connection.state = "open"
    /\ connection.pc = "switch"
    /\ julead' = [julead EXCEPT
                    !.connections[c].pc = "read",
                    !.connections[c].message = NoMessage,
                    !.connections[c].frames =
                        Append(@, [op |-> message.op, length |-> message.length,
                                   reply |-> message.reply, backend |-> julead.backend,
                                   replies |-> Len(connection.output)]
                                  @@ Switch(message, julead.size))]
    /\ DaemonFrame

(* jd_signal: g_main_loop_quit, g_main_loop_run returns *)
jd_signal ==
    /\ julead.main = "loop"
    /\ julead' = [julead EXCEPT !.main = "quit"]
    /\ DaemonFrame

(* g_socket_service_stop: no further connection is accepted *)
ServiceStop ==
    /\ julead.main = "quit"
    /\ julead' = [julead EXCEPT !.main = "stopped", !.accepting = FALSE]
    /\ DaemonFrame

(* g_object_unref(listener) *)
ListenerUnref ==
    /\ julead.main = "stopped"
    /\ julead' = [julead EXCEPT !.main = "unlistened", !.listener = "closed"]
    /\ DaemonFrame

(* jd_backend_deinit(trace) *)
BackendDeinit ==
    /\ julead.main = "unlistened"
    /\ julead' = [julead EXCEPT !.main = "deinit", !.backend = "finalized"]
    /\ DaemonFrame

(* g_module_close(backend) ... return 0: the process and its threads end *)
MainReturn ==
    /\ julead.main = "deinit"
    /\ julead' = [julead EXCEPT !.main = "exit", !.backend = "unloaded"]
    /\ DaemonFrame

InitDaemon ==
    /\ NoClient
    /\ NoIterator
    /\ NoBackground
    /\ NoDistribution
    /\ Initialized
    /\ NoLookup
    /\ \E size \in ItemSizes : julead = Listening(size)

NextDaemon ==
    \/ \E c \in Clients : Accept(c)
    \/ \E c \in Clients, frame \in WireFrames : ClientSend(c, frame)
    \/ \E c \in Clients : ClientClose(c)
    \/ \E c \in Clients : j_message_read(c)
    \/ \E c \in Clients : jd_on_run(c)
    \/ jd_signal
    \/ ServiceStop
    \/ ListenerUnref
    \/ BackendDeinit
    \/ MainReturn

SpecDaemon == InitDaemon /\ [][NextDaemon]_vars



(* a request the client expects an answer to: it produces data or its      *)
(* flags ask for a reply                                                   *)
NeedsReply(request) == request.op = "J_MESSAGE_OP_READ" \/ request.reply

(* C32: for every request that produces data and for every request whose   *)
(* flags ask for a reply the server sends the reply on the same connection *)
(* before it reads the next frame: whenever a worker is about to read a    *)
(* frame, it has written at least one reply frame for each such request it *)
(* has handled on the connection.                                          *)
RepliesBeforeNextFrame ==
    \A c \in Clients :
        LET connection == julead.connections[c] IN
        connection.pc = "read"
        => Len(connection.output)
             >= Cardinality({i \in 1..Len(connection.frames) :
                               NeedsReply(connection.frames[i])})



(* a frame the server cannot serve: no message, or an opcode it does not know *)
BadFrame(request) == request.op \in {"malformed", "unknown"}

(* C33: when the server receives a malformed frame or a frame with an      *)
(* unknown opcode it drops the connection: that frame is the last one it   *)
(* takes from the connection, no further frame is read or served.          *)
BadFrameEndsConnection ==
    \A c \in Clients :
        LET connection == julead.connections[c] IN
        \A i \in 1..Len(connection.frames) :
            BadFrame(connection.frames[i])
            => /\ i = Len(connection.frames)
               /\ connection.message = NoMessage

(* C34: on shutdown the listener is closed, the workers are drained and    *)
(* only then the backend is finalized: every backend call a worker made    *)
(* (open, read, write, close) was made while the backend was ready, none   *)
(* after jd_backend_deinit.                                                *)
WorkersDrainedBeforeDeinit ==
    \A c \in Clients :
        LET connection == julead.connections[c] IN
        \A i \in 1..Len(connection.frames) :
            connection.frames[i].calls # <<>>
            => connection.frames[i].backend = "ready"

(* C35: while it serves a read or write request the server never moves     *)
(* more bytes into or out of the request's buffer than the buffer holds    *)
(* (512 KiB), whatever length the request carries.                         *)
BufferNeverOverrun ==
    \A c \in Clients :
        \A i \in 1..Len(julead.connections[c].frames) :
            julead.connections[c].frames[i].moved <= BufferSize



(***************************************************************************)
(* Configurations.  A key file is a function from the <<group, key>> pairs *)
(* it holds to their values; a pointer that may be NULL is the empty set   *)
(* or the set of the one thing it points to.                               *)
(***************************************************************************)
MaxServers == 2        \* entries of a server list in a key file

ListKeys == {<<"servers", "object">>, <<"servers", "kv">>}

StringKeys ==
    {<<"object", "backend">>, <<"object", "component">>, <<"object", "path">>,
     <<"kv", "backend">>, <<"kv", "component">>, <<"kv", "path">>}

(* the server lists a key file may hold: "object=" up to MaxServers hosts *)
ServerLists == {[i \in 1..n |-> "host"] : n \in 0..MaxServers}

KeyFilesOver(keys) ==
    {[k \in keys |-> IF k \in ListKeys THEN lists[k] ELSE "value"] :
        lists \in [ListKeys -> ServerLists]}

(* every key file over the keys a configuration is made from *)
KeyFiles == UNION {KeyFilesOver(keys) : keys \in SUBSET (ListKeys \cup StringKeys)}

(* g_key_file_get_string / g_key_file_get_string_list: a newly allocated   *)
(* value, or NULL when the key is not there                                *)
g_key_file_get(key_file, key) ==
    IF key \in DOMAIN key_file THEN {key_file[key]} ELSE {}

(* the test without servers[0] == NULL *)
NoServersUnlessNull(servers) == servers = {}

(* servers == NULL || servers[0] == NULL *)
NoServers(servers) == servers = {} \/ servers = {<<>>}

(* the one element of a non-NULL pointer *)
Deref(pointer) == CHOOSE x \in pointer : TRUE

(* j_configuration_new_for_data: the configuration or NULL, the values it  *)
(* fetched, and those the failure branch released                          *)
j_configuration_new_for_data(key_file) ==
    LET fetched == [k \in ListKeys \cup StringKeys |-> g_key_file_get(key_file, k)]
        servers_object == fetched[<<"servers", "object">>]
        servers_kv == fetched[<<"servers", "kv">>]
        allocated == {k \in DOMAIN fetched : fetched[k] # {}}
    IN  IF \/ NoServers(servers_object)
           \/ NoServers(servers_kv)
           \/ \E k \in StringKeys : fetched[k] = {}
        THEN [configuration |-> {}, allocated |-> allocated,
              released |-> ListKeys \cup StringKeys]
        ELSE [configuration |->
                {[servers |-> [object |-> Deref(servers_object),
                               kv |-> Deref(servers_kv),
                               object_len |-> Len(Deref(servers_object)),
                               kv_len |-> Len(Deref(servers_kv))],
                  object |-> [backend |-> Deref(fetched[<<"object", "backend">>]),
                              component |-> Deref(fetched[<<"object", "component">>]),
                              path |-> Deref(fetched[<<"object", "path">>])],
                  kv |-> [backend |-> Deref(fetched[<<"kv", "backend">>]),
                          component |-> Deref(fetched[<<"kv", "component">>]),
                          path |-> Deref(fetched[<<"kv", "path">>])],
                  ref_count |-> 1]},
              allocated |-> allocated, released |-> {}]

(* g_return_val_if_fail(configuration != NULL, 0); return servers.object_len *)
j_configuration_get_object_server_count(configuration) ==
    IF configuration = {} THEN 0 ELSE Deref(configuration).servers.object_len

j_configuration_get_kv_server_count(configuration) ==
    IF configuration = {} THEN 0 ELSE Deref(configuration).servers.kv_len

ConfFrame == UNCHANGED <<clientVars, iterVars, bgVars, distVars, initVars, julead>>

(* a caller hands a key file to j_configuration_new_for_data *)
NewForData ==
    /\ lookup.pc = "data"
    /\ lookup' = [pc |-> "made", key_file |-> lookup.key_file]
                 @@ j_configuration_new_for_data(lookup.key_file)
    /\ ConfFrame

(* the configuration, if any, is released: j_configuration_unref *)
ConfigurationUnref ==
    /\ lookup.pc = "made"
    /\ lookup' = [lookup EXCEPT !.pc = "unreffed",
                                !.released = IF lookup.configuration = {} THEN @
                                             ELSE ListKeys \cup StringKeys,
                                !.configuration = {}]
    /\ ConfFrame

InitData ==
    /\ NoClient
    /\ NoIterator
    /\ NoBackground
    /\ NoDistribution
    /\ Initialized
    /\ NoJulead
    /\ \E key_file \in KeyFiles : lookup = [pc |-> "data", key_file |-> key_file]

NextData ==
    \/ NewForData
    \/ ConfigurationUnref

SpecData == InitData /\ [][NextData]_vars

(* what a configuration needs: both server lists with a first entry and    *)
(* the six backend, component and path keys                                *)
Complete(key_file) ==
    /\ ListKeys \cup StringKeys \subseteq DOMAIN key_file
    /\ \A k \in ListKeys : Len(key_file[k]) >= 1

(* C37: a configuration is constructed only when both server lists are     *)
(* non-empty and the object and kv backend, component and path keys are    *)
(* all present; otherwise the result is NULL and every value fetched has   *)
(* been released; every configuration that exists has at least one object *)
(* server and one kv server.                                               *)
ConfigurationNeedsAllKeys ==
    lookup.pc = "made"
    => /\ lookup.configuration # {} <=> Complete(lookup.key_file)
       /\ lookup.configuration = {} => lookup.allocated \subseteq lookup.released
       /\ lookup.configuration # {}
            => /\ lookup.released = {}
               /\ j_configuration_get_object_server_count(lookup.configuration) >= 1
               /\ j_configuration_get_kv_server_count(lookup.configuration) >= 1
               /\ Deref(lookup.configuration).servers.object
                    = lookup.key_file[<<"servers", "object">>]
               /\ Deref(lookup.configuration).servers.kv
                    = lookup.key_file[<<"servers", "kv">>]

(* construction was refused for a key file that has every key but an empty *)
(* list of kv servers, and the values fetched were released                *)
ConfigurationNeedsAllKeysWitness ==
    /\ lookup.pc = "made"
    /\ lookup.configuration = {}
    /\ DOMAIN lookup.key_file = ListKeys \cup StringKeys
    /\ lookup.key_file[<<"servers", "kv">>] = <<>>
    /\ Len(lookup.key_file[<<"servers", "object">>]) = MaxServers
    /\ lookup.allocated = ListKeys \cup StringKeys
    /\ lookup.released = lookup.allocated



(***************************************************************************)
(* j_configuration_new: where the configuration file is looked for.  A     *)
(* path is the sequence of its elements, an absolute one starts with the   *)
(* root "".                                                                *)
(***************************************************************************)
g_path_is_absolute(path) == path # <<>> /\ path[1] = ""

g_path_get_basename(path) == path[Len(path)]

(* g_build_filename(dir, "julea", config_name, NULL) *)
g_build_filename(dir, config_name) == <<"", dir, "julea", config_name>>

g_get_user_config_dir == "home"

g_get_system_config_dirs == <<"xdg1", "xdg2">>

(* values of JULEA_CONFIG: unset, an absolute path, a relative path *)
EnvPaths == {{}, {<<"", "opt", "alt">>}, {<<"opt", "alt">>}}

ConfigNames == {"julea", "alt"}

(* the places a configuration file may be at *)
ConfigPaths ==
    {<<"", "opt", "alt">>}
    \cup {g_build_filename(dir, name) :
            dir \in {g_get_user_config_dir} \cup {g_get_system_config_dirs[i] :
                                                    i \in DOMAIN g_get_system_config_dirs},
            name \in ConfigNames}

(* a key file with everything a configuration needs, and one without its   *)
(* kv servers                                                              *)
CompleteKeyFile ==
    [k \in ListKeys \cup StringKeys |-> IF k \in ListKeys THEN <<"host">> ELSE "value"]

IncompleteKeyFile ==
    [k \in (ListKeys \cup StringKeys) \ {<<"servers", "kv">>} |->
        IF k \in ListKeys THEN <<"host">> ELSE "value"]

(* file systems: which of the places hold a file that loads, and what is in it *)
FileSystems ==
    UNION {[paths -> {CompleteKeyFile, IncompleteKeyFile}] : paths \in SUBSET ConfigPaths}

(* g_key_file_load_from_file(key_file, path, ...) *)
g_key_file_load_from_file(files, path) == path \in DOMAIN files

(* the user configuration directory, then the system directories: the      *)
(* first file that loads is used                                           *)
RECURSIVE SearchDirs(_, _, _, _)
SearchDirs(dirs, config_name, files, tried) ==
    IF dirs = <<>> THEN [configuration |-> {}, tried |-> tried]
    ELSE LET path == g_build_filename(Head(dirs), config_name) IN
         IF g_key_file_load_from_file(files, path)
         THEN [configuration |-> j_configuration_new_for_data(files[path]).configuration,
               tried |-> Append(tried, path)]
         ELSE SearchDirs(Tail(dirs), config_name, files, Append(tried, path))

j_configuration_new(env_path, files) ==
    IF env_path # {} /\ g_path_is_absolute(Deref(env_path))
    THEN IF g_key_file_load_from_file(files, Deref(env_path))
         THEN [configuration |->
                 j_configuration_new_for_data(files[Deref(env_path)]).configuration,
               tried |-> <<Deref(env_path)>>, criticals |-> 0]
         ELSE [configuration |-> {}, tried |-> <<Deref(env_path)>>, criticals |-> 1]
    ELSE LET config_name == IF env_path # {} THEN g_path_get_basename(Deref(env_path))
                            ELSE "julea"
         IN  SearchDirs(<<g_get_user_config_dir>> \o g_get_system_config_dirs,
                        config_name, files, <<>>)
             @@ [criticals |-> 0]

(* a process with JULEA_CONFIG and a file system calls j_configuration_new *)
ConfigurationNew ==
    /\ lookup.pc = "new"
    /\ lookup' = [pc |-> "found", env_path |-> lookup.env_path, files |-> lookup.files]
                 @@ j_configuration_new(lookup.env_path, lookup.files)
    /\ ConfFrame

(* the caller is done with what it got *)
LookupUnref ==
    /\ lookup.pc = "found"
    /\ lookup' = [lookup EXCEPT !.pc = "unreffed", !.configuration = {}]
    /\ ConfFrame

InitLookup ==
    /\ NoClient
    /\ NoIterator
    /\ NoBackground
    /\ NoDistribution
    /\ Initialized
    /\ NoJulead
    /\ \E env_path \in EnvPaths, files \in FileSystems :
         lookup = [pc |-> "new", env_path |-> env_path, files |-> files]

NextLookup ==
    \/ ConfigurationNew
    \/ LookupUnref

SpecLookup == InitLookup /\ [][NextLookup]_vars

(* the candidates in the order of the search: the absolute path given by   *)
(* JULEA_CONFIG, the user configuration directory, the system directories  *)
Candidates(env_path) ==
    LET config_name == IF env_path # {} /\ ~g_path_is_absolute(Deref(env_path))
                       THEN g_path_get_basename(Deref(env_path)) ELSE "julea"
    IN  (IF env_path # {} /\ g_path_is_absolute(Deref(env_path))
         THEN <<Deref(env_path)>> ELSE <<>>)
        \o <<g_build_filename(g_get_user_config_dir, config_name)>>
        \o [i \in DOMAIN g_get_system_config_dirs |->
               g_build_filename(g_get_system_config_dirs[i], config_name)]

(* C36: the lookup tries the absolute path given by JULEA_CONFIG, then the *)
(* user configuration directory, then each system configuration directory, *)
(* and uses the first candidate that can be loaded; it fails to load a     *)
(* file only if none of the candidates can be loaded.                      *)
FirstLoadableCandidateUsed ==
    lookup.pc = "found"
    => LET candidates == Candidates(lookup.env_path)
           loadable == {i \in DOMAIN candidates :
                          g_key_file_load_from_file(lookup.files, candidates[i])}
           first == CHOOSE i \in loadable : \A j \in loadable : i <= j
       IN  IF loadable = {}
           THEN lookup.configuration = {}
           ELSE /\ lookup.tried = SubSeq(candidates, 1, first)
                /\ lookup.configuration
                     = j_configuration_new_for_data(lookup.files[candidates[first]]).configuration



(***************************************************************************)
(* Configuring a distribution: the application sets the block size through *)
(* either setter, resets the distribution to a range and distributes.      *)
(***************************************************************************)
Unused == distribution.chunks = <<>> /\ ~distribution.finished

(* j_distribution_set_block_size(distribution, block_size) *)
SetBlockSize(block_size) ==
    /\ Unused
    /\ block_size > 0
    /\ distribution' = j_distribution_set_block_size(distribution, block_size)
    /\ UNCHANGED restored
    /\ DistFrame

(* j_distribution_set(distribution, key, value) *)
Set(key, value) ==
    /\ Unused
    /\ distribution' = j_distribution_set(distribution, key, value)
    /\ UNCHANGED restored
    /\ DistFrame

(* j_distribution_reset(distribution, length, offset) *)
Reset(length, offset) ==
    /\ Unused
    /\ distribution' = [j_distribution_reset(distribution, length, offset)
                          EXCEPT !.want_length = length, !.want_offset = offset]
    /\ UNCHANGED restored
    /\ DistFrame

InitBlock ==
    /\ NoClient
    /\ NoIterator
    /\ NoDaemon
    /\ NoBackground
    /\ Initialized
    /\ \E type \in JDistributionTypes, server_count \in DistServerCounts :
         \E d \in Configured(type, server_count) : distribution = Started(d, 0, 0)
    /\ restored = NoJDistribution

NextBlock ==
    \/ \E block_size \in DistBlockSizes : SetBlockSize(block_size)
    \/ \E value \in DistBlockSizes : Set("block-size", value)
    \/ \E length \in DistLengths, offset \in DistOffsets : Reset(length, offset)
    \/ Distribute

SpecBlock == InitBlock /\ [][NextBlock]_vars

(* C38: the block size in effect for a distribution never exceeds          *)
(* J_STRIPE_SIZE (4 MiB), whether it was set by                            *)
(* j_distribution_set_block_size or by j_distribution_set with the key     *)
(* "block-size": the strategy's block size is at most 4 MiB and no chunk   *)
(* of a striping strategy is longer.                                       *)
BlockSizeCapped ==
    /\ distribution.distribution.block_size <= J_STRIPE_SIZE
    /\ distribution.type # J_DISTRIBUTION_SINGLE_SERVER
         => \A i \in 1..Len(distribution.chunks) :
               distribution.chunks[i].new_length <= J_STRIPE_SIZE



(***************************************************************************)
(* Restoring distributions from documents of any type.                     *)
(***************************************************************************)
(* a document whose type is none of the JDistributionType values *)
UnknownDocument == [type |-> "unknown", BlockSize |-> J_STRIPE_SIZE]

(* the documents at hand: the serialized form of the distribution, and one *)
(* of an unknown type                                                      *)
Documents == {j_distribution_serialize(distribution), UnknownDocument}

(* j_distribution_deserialize(d, b) on a new distribution of any type *)
DeserializeInto(type, b) ==
    /\ restored = NoJDistribution
    /\ \E d \in j_distribution_deserialize(
                   j_distribution_new_common(type, distribution.distribution.server_count),
                   b) :
         restored' = Started(d, distribution.want_length, distribution.want_offset)
    /\ UNCHANGED distribution
    /\ DistFrame

(* j_distribution_new_from_bson(b) *)
NewFromDocument(b) ==
    /\ restored = NoJDistribution
    /\ \E d \in j_distribution_new_from_bson(b, distribution.distribution.server_count) :
         restored' = Started(d, distribution.want_length, distribution.want_offset)
    /\ UNCHANGED distribution
    /\ DistFrame

(* j_distribution_vtables[distribution->type]: the vtable reset,           *)
(* distribute, serialize and free go through                               *)
Dispatched(d) == d.type

(* a call through the vtable of a known type *)
DispatchKnown ==
    /\ restored # NoJDistribution
    /\ Dispatched(restored) \in JDistributionTypes
    /\ DistributeRestored

(* a call through j_distribution_vtables[type] for a type outside the      *)
(* array: not defined, the distribution is not followed further            *)
DispatchUnknown ==
    /\ restored # NoJDistribution
    /\ Dispatched(restored) \notin JDistributionTypes
    /\ ~restored.finished
    /\ restored' = [restored EXCEPT !.finished = TRUE]
    /\ UNCHANGED distribution
    /\ DistFrame

InitTag ==
    /\ NoClient
    /\ NoIterator
    /\ NoDaemon
    /\ NoBackground
    /\ Initialized
    /\ \E type \in JDistributionTypes, server_count \in DistServerCounts :
         \E d \in Configured(type, server_count) :
           \E length \in DistLengths :
             distribution = Started(d, length, 0)
    /\ restored = NoJDistribution

NextTag ==
    \/ \E type \in JDistributionTypes : \E b \in Documents : DeserializeInto(type, b)
    \/ \E b \in Documents : NewFromDocument(b)
    \/ DispatchKnown
    \/ DispatchUnknown

SpecTag == InitTag /\ [][NextTag]_vars

(* C39: the type tag of a JDistribution is one of the three strategies and *)
(* is the strategy that allocated its strategy state: after                *)
(* j_distribution_deserialize or j_distribution_new_from_bson of any       *)
(* document, the vtable the calls are dispatched to is the one of the      *)
(* strategy that created the state.                                        *)
TagMatchesAllocator ==
    restored # NoJDistribution
    => /\ restored.type \in JDistributionTypes
       /\ Dispatched(restored) = restored.distribution.made_by

=============================================================================
